---- MODULE Spec2Model ----
(***************************************************************************)
(* Model of the `dac` program (programs/dac): the registry                 *)
(* (NetworkConfig), node records, sessions ("campaigns") with their escrow *)
(* vault and share ledger, and the task claim / result / validation cycle. *)
(*                                                                         *)
(* Every instruction handler is one action.  A call that fails leaves      *)
(* every account unchanged (the transaction is reverted) and is recorded   *)
(* in lastOp with the error the handler returned.                          *)
(***************************************************************************)
EXTENDS Integers, Sequences, FiniteSets, TLC

VARIABLES
    network_config,   \* NetworkConfig account
    node,             \* NodeInfo accounts, by node pubkey
    treasury,         \* lamports of each node_treasury account
    agent,            \* Agent accounts, by agent slot id
    session,          \* Session accounts, by session slot id
    vault,            \* lamports of each session_vault account
    task,             \* Task accounts, by task slot id
    contribution,     \* Contribution accounts, by <<session, contributor>>
    lastOp            \* the last instruction processed and its outcome

vars == <<network_config, node, treasury, agent, session, vault, task,
          contribution, lastOp>>

-----------------------------------------------------------------------------
(* Bounds of the model. *)

MaxDeposit   == 2    \* largest deposit_amount / initial_deposit tried
MaxVault     == 3    \* deposits are tried only while the vault stays within this
MaxCost      == 1    \* largest max_task_cost tried by claim_task
MaxPayment   == 2    \* largest payment_amount tried by a validation
MaxTaskIndex == 2    \* claim_task is tried only while task_index is below this
MaxIterCap   == 1    \* max_iterations values 0..MaxIterCap are tried
MaxQuorum    == 2    \* required_validations is drawn from 1..MaxQuorum
MaxBurn      == 1    \* largest shares_to_burn tried
MaxShares    == 4    \* deposits are tried only while total_shares stays within this
RtMaxDeposit == 6    \* SpecRoundTrip: largest deposit and largest max_task_cost + 1
RtMaxVault   == 12   \* SpecRoundTrip: deposits are tried while the vault stays within this

(* rent.minimum_balance(0): the reserved minimum of a zero-data account. *)
RentMin == 1

-----------------------------------------------------------------------------
(* Identities. *)

PublicNodes       == {"P1", "P2", "P3"}
ConfidentialNodes == {"C1", "C2", "C3"}
CandidateNodes    == {"P4", "C4"}
NodeIds           == PublicNodes \cup ConfidentialNodes \cup CandidateNodes
Authority         == "authority"
Contributors      == {"alice", "bob"}
NoKey             == "none"       \* Pubkey::default() / Option::None
SessionIds        == {1, 2}
TaskIds           == {1, 2}
NoCid             == "None"
ZeroHash          == <<>>          \* [0u8; 32]

TeeKeyOf(n) == <<"tee", n>>        \* the TEE signing key a node registered
AttackerKey == <<"tee", "attacker">>

\* Sha256 over the concatenation of the given parts, kept symbolic.
Sha256(parts) == <<"sha256", parts>>

-----------------------------------------------------------------------------
(* The f64 share arithmetic.                                               *)
(*                                                                         *)
(* The handlers compute share_price = (available as f64) / (total_shares   *)
(* as f64), then (deposit as f64 / share_price) as u64 when minting and    *)
(* (shares as f64 * share_price) as u64 when paying out.  Each f64         *)
(* operation rounds to the nearest 53-bit value, so the result can be one  *)
(* below the exact floor when the exact quotient or product is a whole     *)
(* number.  The operators below compute the f64 result exactly for integer *)
(* inputs far below 2^26: F64Delta is the signed rounding error of the     *)
(* stored share price, in units of 1/(total * 2^k), k = 52 - floor(log2(   *)
(* available/total)); the final rounding goes back up to the whole number  *)
(* n exactly when the deficit is at most half the spacing of the f64       *)
(* values just below n.                                                    *)

RECURSIVE Pow2(_)
Pow2(n) == IF n <= 0 THEN 1 ELSE 2 * Pow2(n - 1)

RECURSIVE ILog2(_)
\* floor(log2(n)) for n >= 1
ILog2(n) == IF n < 2 THEN 0 ELSE 1 + ILog2(n \div 2)

RECURSIVE LogUp(_, _)
LogUp(a, t) == IF a >= 2 * t THEN 1 + LogUp(a, 2 * t) ELSE 0

RECURSIVE LogDown(_, _)
LogDown(a, t) == IF 2 * a >= t THEN 1 ELSE 1 + LogDown(2 * a, t)

\* floor(log2(a / t)) for a, t >= 1
FloorLog2Ratio(a, t) == IF a >= t THEN LogUp(a, t) ELSE 0 - LogDown(a, t)

RECURSIVE Pow2Mod(_, _)
Pow2Mod(k, t) == IF k <= 0 THEN 1 % t ELSE (2 * Pow2Mod(k - 1, t)) % t

\* M * t - a * 2^k, where M is the 53-bit significand of (a as f64)/(t as f64)
F64Delta(a, t) ==
    LET k   == 52 - FloorLog2Ratio(a, t)
        rem == ((a % t) * Pow2Mod(k, t)) % t
    IN  IF rem = 0 THEN 0
        ELSE IF 2 * rem < t THEN 0 - rem
        ELSE t - rem

\* 1 when n is a power of two (the f64 spacing below n is then halved)
IsPow2(n) == IF n = Pow2(ILog2(n)) THEN 1 ELSE 0

\* (d as f64 / (a as f64 / t as f64)) as u64, for a, t, d >= 1
F64Mint(d, a, t) ==
    LET n0 == (d * t) \div a
        f  == (d * t) % a
        dl == F64Delta(a, t)
        e  == ILog2(n0)
        g  == FloorLog2Ratio(a, t)
        up == IF g >= 0
              THEN n0 * dl * Pow2(1 + IsPow2(n0) + g) <= a * Pow2(e)
              ELSE n0 * dl * Pow2(1 + IsPow2(n0)) <= a * Pow2(e - g)
    IN  IF f # 0 \/ n0 = 0 \/ dl <= 0 THEN n0
        ELSE IF up THEN n0 ELSE n0 - 1

\* (s as f64 * (a as f64 / t as f64)) as u64, for t, s >= 1 and a >= 0
F64Payout(s, a, t) ==
    IF a = 0 THEN 0 ELSE
    LET n0 == (s * a) \div t
        f  == (s * a) % t
        dl == F64Delta(a, t)
        e  == ILog2(n0)
        g  == FloorLog2Ratio(a, t)
        up == IF g >= 0
              THEN Pow2(1 + IsPow2(n0) + g) * s * (0 - dl) <= t * Pow2(e)
              ELSE Pow2(1 + IsPow2(n0)) * s * (0 - dl) <= t * Pow2(e - g)
    IN  IF f # 0 \/ n0 = 0 \/ dl >= 0 THEN n0
        ELSE IF up THEN n0 ELSE n0 - 1

-----------------------------------------------------------------------------
(* Records. *)

NoNode == [status |-> "Unregistered", node_type |-> "Public", owner |-> NoKey,
           node_info_cid |-> NoCid, code_measurement |-> NoKey,
           tee_signing_pubkey |-> NoKey, total_earned |-> 0,
           total_tasks_completed |-> 0,
           approved_validators |-> <<>>, rejected_validators |-> <<>>]

ActiveNode(kind, n) ==
    [NoNode EXCEPT !.status = "Active", !.node_type = kind, !.owner = "operator",
        !.node_info_cid = IF kind = "Public" THEN "x" ELSE NoCid,
        !.code_measurement = IF kind = "Confidential" THEN "m1" ELSE NoKey,
        !.tee_signing_pubkey = IF kind = "Confidential" THEN TeeKeyOf(n) ELSE NoKey]

\* create_session: the Session and Task accounts of slot i
NewSession(i, owner, is_confidential) ==
    [session_slot_id |-> i, owner |-> owner, task |-> i, status |-> "Pending",
     is_confidential |-> is_confidential, max_iterations |-> 0,
     current_iteration |-> 0, task_index_start |-> 0, task_index_end |-> 0,
     total_shares |-> 0, locked_for_tasks |-> 0]

NewTask(i) ==
    [task_slot_id |-> i, session_slot_id |-> i, status |-> "Ready",
     compute_node |-> NoKey, chain_proof |-> ZeroHash, task_index |-> 0,
     max_task_cost |-> 0, input_cid |-> NoCid, output_cid |-> NoCid,
     pending_input_cid |-> NoCid, pending_output_cid |-> NoCid,
     validations |-> <<>>]

NoContribution == [exists |-> FALSE, shares |-> 0]

\* What lastOp records of a processed instruction.  lastOp.accepted is the
\* history of the attestations accepted so far: the task, its task_index,
\* the signing key and the signed message of each.
NoMsg == <<>>

Op(name, err, who, s, t, amt, out, flag, key) ==
    [op |-> name, err |-> err, who |-> who, s |-> s, t |-> t, amt |-> amt,
     out |-> out, flag |-> flag, key |-> key, msg |-> NoMsg,
     accepted |-> lastOp.accepted]

NoOp ==
    [op |-> "none", err |-> "Ok", who |-> NoKey, s |-> 0, t |-> 0, amt |-> 0,
     out |-> 0, flag |-> FALSE, key |-> NoKey, msg |-> NoMsg, accepted |-> {}]

-----------------------------------------------------------------------------
(* Helpers shared by the handlers. *)

Contains(q, x) == \E i \in 1..Len(q) : q[i] = x

\* Vec::iter().filter(..).collect()
RECURSIVE Filter(_, _)
Filter(q, x) ==
    IF q = <<>> THEN <<>>
    ELSE IF Head(q) = x THEN Filter(Tail(q), x)
    ELSE <<Head(q)>> \o Filter(Tail(q), x)

\* as_bytes() of an Option<String>, None giving the empty slice
CidBytes(c) == IF c = NoCid THEN "" ELSE c

\* variant: the balance offered to contributors and claims leaves out only
\* the rent minimum, not the amount locked for tasks
AvailableBalanceIgnoringLock(s) ==
    IF vault[s] < RentMin THEN -1 ELSE vault[s] - RentMin

\* vault.lamports() - locked_for_tasks - rent_exempt_minimum, or -1 when a
\* checked_sub underflows
AvailableBalance(s) ==
    IF vault[s] < session[s].locked_for_tasks THEN -1
    ELSE IF vault[s] - session[s].locked_for_tasks < RentMin THEN -1
    ELSE vault[s] - session[s].locked_for_tasks - RentMin

ApprovedPool(s) ==
    IF session[s].is_confidential
    THEN network_config.approved_confidential_nodes
    ELSE network_config.approved_public_nodes

\* number of entries of a validator slate with the given status
CountStatus(vals, st) == Cardinality({i \in 1..Len(vals) : vals[i].status = st})

HasEntry(vals, v) == \E i \in 1..Len(vals) : vals[i].pubkey = v

\* the first entry of the slate for validator v (iter().find)
EntryIndex(vals, v) ==
    CHOOSE i \in 1..Len(vals) :
        vals[i].pubkey = v /\ \A j \in 1..(i - 1) : vals[j].pubkey # v

SetEntry(vals, v, st) ==
    IF HasEntry(vals, v)
    THEN [vals EXCEPT ![EntryIndex(vals, v)].status = st]
    ELSE vals

\* variant: the threshold counts as reached from the first vote on
ThresholdAtFirstVote(current_validations, required_validations) ==
    current_validations >= 1

check_validation_threshold(current_validations, required_validations) ==
    current_validations >= required_validations

-----------------------------------------------------------------------------
(* set_session: the owner activates a Pending session with a first deposit *)
(* and names the task and the compute node.                                *)

\* variant: set_session without its check of the agent's status
SetSessionErrAnyAgent(owner, s, t, a, initial_deposit, compute_node) ==
    IF contribution[<<s, owner>>].exists THEN "AccountAlreadyInUse"
    ELSE IF session[s].status # "Pending" THEN "InvalidSessionStatus"
    ELSE IF session[s].owner # NoKey /\ session[s].owner # owner
        THEN "InvalidSessionOwner"
    ELSE IF task[t].status # "Ready" THEN "InvalidTaskStatus"
    ELSE IF initial_deposit = 0 THEN "DepositTooSmall"
    ELSE IF ~Contains(ApprovedPool(s), compute_node)
        THEN "InvalidComputeNodePubkey"
    ELSE IF vault[s] # RentMin /\ vault[s] # 0 THEN "VaultHasLeftoverFunds"
    ELSE "Ok"

SetSessionErr(owner, s, t, a, initial_deposit, compute_node) ==
    IF contribution[<<s, owner>>].exists THEN "AccountAlreadyInUse"
    ELSE IF session[s].status # "Pending" THEN "InvalidSessionStatus"
    ELSE IF session[s].owner # NoKey /\ session[s].owner # owner
        THEN "InvalidSessionOwner"
    ELSE IF task[t].status # "Ready" THEN "InvalidTaskStatus"
    ELSE IF agent[a].status # "Active" THEN "InvalidAgentStatus"
    ELSE IF initial_deposit = 0 THEN "DepositTooSmall"
    ELSE IF ~Contains(ApprovedPool(s), compute_node)
        THEN "InvalidComputeNodePubkey"
    ELSE IF vault[s] # RentMin /\ vault[s] # 0 THEN "VaultHasLeftoverFunds"
    ELSE "Ok"

\* the session account after a successful set_session
SetSessionRecord(owner, s, t, max_iterations, shares) ==
    LET reset == IF session[s].current_iteration > 0
                 THEN [session[s] EXCEPT !.current_iteration = 0,
                          !.task_index_start = session[s].task_index_end,
                          !.task_index_end = 0, !.total_shares = 0,
                          !.locked_for_tasks = 0]
                 ELSE session[s]
    IN  [reset EXCEPT !.owner = owner, !.task = t,
            !.max_iterations = max_iterations, !.total_shares = shares,
            !.status = "Active", !.task_index_start = task[t].task_index]

\* task.status written by set_session
SetSessionTaskStatus == "Ready"

set_session(owner, s, t, a, max_iterations, initial_deposit, compute_node) ==
    LET err    == SetSessionErr(owner, s, t, a, initial_deposit, compute_node)
        shares == initial_deposit   \* (initial_deposit as f64 / 1.0) as u64
    IN  /\ lastOp' = [Op("set_session", err, owner, s, t, initial_deposit,
                           IF err = "Ok" THEN shares ELSE 0, FALSE,
                           compute_node)
                        EXCEPT !.msg = [agent_slot_id |-> a]]
        /\ IF err = "Ok"
           THEN /\ vault' = [vault EXCEPT ![s] =
                      IF vault[s] = 0 THEN initial_deposit + RentMin
                      ELSE vault[s] + initial_deposit]
                /\ contribution' = [contribution EXCEPT ![<<s, owner>>] =
                      [exists |-> TRUE, shares |-> shares]]
                /\ session' = [session EXCEPT ![s] =
                      SetSessionRecord(owner, s, t, max_iterations, shares)]
                /\ task' = [task EXCEPT ![t].compute_node = compute_node,
                                        ![t].status = SetSessionTaskStatus]
           ELSE UNCHANGED <<vault, contribution, session, task>>
        /\ UNCHANGED <<network_config, node, treasury, agent>>

\* a system-program transfer of lamports to the address of a session vault:
\* the vault is a system account that any funded account can pay into
fund_vault(who, s, amount) ==
    /\ lastOp' = Op("fund_vault", "Ok", who, s, 0, amount, 0, FALSE, NoKey)
    /\ vault' = [vault EXCEPT ![s] = vault[s] + amount]
    /\ UNCHANGED <<network_config, node, treasury, agent, session, task,
                   contribution>>

-----------------------------------------------------------------------------
(* contribute_to_session *)

\* shares_to_mint; -1 stands for u64::MAX, the cast of an infinite quotient
SharesToMint(s, deposit_amount) ==
    IF session[s].total_shares = 0 THEN deposit_amount
    ELSE IF AvailableBalance(s) <= 0 THEN -1
    ELSE F64Mint(deposit_amount, AvailableBalance(s), session[s].total_shares)

ContributeErr(contributor, s, deposit_amount) ==
    IF session[s].status # "Active" THEN "InvalidSessionStatus"
    ELSE IF deposit_amount = 0 THEN "Overflow"
    ELSE IF session[s].total_shares # 0 /\ AvailableBalance(s) < 0
        THEN "Underflow"
    ELSE IF SharesToMint(s, deposit_amount) = 0 THEN "Overflow"
    ELSE IF SharesToMint(s, deposit_amount) = -1 THEN "Overflow"
    ELSE "Ok"

contribute_to_session(contributor, s, deposit_amount) ==
    LET err  == ContributeErr(contributor, s, deposit_amount)
        mint == SharesToMint(s, deposit_amount)
        old  == contribution[<<s, contributor>>]
    IN  /\ lastOp' = Op("contribute_to_session", err, contributor, s, 0,
                        deposit_amount, IF err = "Ok" THEN mint ELSE 0,
                        FALSE, NoKey)
        /\ IF err = "Ok"
           THEN /\ vault' = [vault EXCEPT ![s] = vault[s] + deposit_amount]
                /\ contribution' = [contribution EXCEPT ![<<s, contributor>>] =
                      IF old.exists
                      THEN [old EXCEPT !.shares = old.shares + mint]
                      ELSE [exists |-> TRUE, shares |-> mint]]
                /\ session' = [session EXCEPT ![s].total_shares =
                                  session[s].total_shares + mint]
           ELSE UNCHANGED <<vault, contribution, session>>
        /\ UNCHANGED <<network_config, node, treasury, agent, task>>

-----------------------------------------------------------------------------
(* withdraw_from_session *)

\* withdraw_amount; -1 stands for u64::MAX (the cast of an infinite product)
WithdrawAmount(s, shares_to_burn) ==
    IF session[s].total_shares = 0
    THEN IF AvailableBalance(s) = 0 THEN 0 ELSE -1
    ELSE F64Payout(shares_to_burn, AvailableBalance(s), session[s].total_shares)

\* variant: withdraw_from_session without its check of the session's status
WithdrawErrAnyStatus(contributor, s, shares_to_burn) ==
    IF ~contribution[<<s, contributor>>].exists THEN "AccountNotInitialized"
    ELSE IF shares_to_burn = 0 THEN "Overflow"
    ELSE IF contribution[<<s, contributor>>].shares < shares_to_burn
        THEN "Underflow"
    ELSE IF AvailableBalance(s) < 0 THEN "Underflow"
    ELSE IF WithdrawAmount(s, shares_to_burn) = -1
            \/ WithdrawAmount(s, shares_to_burn) > AvailableBalance(s)
        THEN "InsufficientBalance"
    ELSE IF session[s].total_shares < shares_to_burn THEN "Underflow"
    ELSE "Ok"

WithdrawErr(contributor, s, shares_to_burn) ==
    IF ~contribution[<<s, contributor>>].exists THEN "AccountNotInitialized"
    ELSE IF session[s].status # "Active" THEN "InvalidSessionStatus"
    ELSE IF shares_to_burn = 0 THEN "Overflow"
    ELSE IF contribution[<<s, contributor>>].shares < shares_to_burn
        THEN "Underflow"
    ELSE IF AvailableBalance(s) < 0 THEN "Underflow"
    ELSE IF WithdrawAmount(s, shares_to_burn) = -1
            \/ WithdrawAmount(s, shares_to_burn) > AvailableBalance(s)
        THEN "InsufficientBalance"
    ELSE IF session[s].total_shares < shares_to_burn THEN "Underflow"
    ELSE "Ok"

\* variant: the burn is not taken off the session's total
WithdrawnSessionKeepsTotal(s, shares_to_burn) == session[s]

\* the session account after a withdrawal
WithdrawnSession(s, shares_to_burn) ==
    [session[s] EXCEPT !.total_shares = session[s].total_shares - shares_to_burn]

withdraw_from_session(contributor, s, shares_to_burn) ==
    LET err == WithdrawErr(contributor, s, shares_to_burn)
        pay == WithdrawAmount(s, shares_to_burn)
    IN  /\ lastOp' = Op("withdraw_from_session", err, contributor, s, 0,
                        shares_to_burn, IF err = "Ok" THEN pay ELSE 0,
                        FALSE, NoKey)
        /\ IF err = "Ok"
           THEN /\ vault' = [vault EXCEPT ![s] = vault[s] - pay]
                /\ contribution' = [contribution EXCEPT
                      ![<<s, contributor>>].shares =
                          contribution[<<s, contributor>>].shares - shares_to_burn]
                /\ session' = [session EXCEPT ![s] =
                                  WithdrawnSession(s, shares_to_burn)]
           ELSE UNCHANGED <<vault, contribution, session>>
        /\ UNCHANGED <<network_config, node, treasury, agent, task>>

-----------------------------------------------------------------------------
(* submit_task: the session owner queues the task (Ready -> Pending). *)

SubmitTaskErr(owner, t, s) ==
    IF session[s].owner # owner THEN "ConstraintHasOne"
    ELSE IF task[t].status # "Ready" THEN "InvalidTaskStatus"
    ELSE IF session[s].status # "Active" THEN "InvalidSessionStatus"
    ELSE IF task[t].session_slot_id # session[s].session_slot_id
        THEN "InvalidSession"
    ELSE "Ok"

submit_task(owner, t, s, input_cid) ==
    LET err == SubmitTaskErr(owner, t, s)
    IN  /\ lastOp' = Op("submit_task", err, owner, s, t, 0, 0, FALSE, NoKey)
        /\ IF err = "Ok"
           THEN task' = [task EXCEPT ![t].pending_input_cid = input_cid,
                                     ![t].status = "Pending"]
           ELSE UNCHANGED task
        /\ UNCHANGED <<network_config, node, treasury, agent, session, vault,
                       contribution>>

-----------------------------------------------------------------------------
(* claim_task *)

\* variant: the claimant is not taken out of the pool
CandidatesWithClaimant(s, compute_pubkey) == ApprovedPool(s)

\* the approved pool of the session's kind without the claimant
Candidates(s, compute_pubkey) == Filter(ApprovedPool(s), compute_pubkey)

\* the validator slate drawn at claim time
DrawSlate(candidates, required, slot) ==
    [i \in 1..required |->
        [pubkey |-> candidates[((((slot % Len(candidates)) + (i - 1))
                                    % Len(candidates))) + 1],
         status |-> "Pending"]]

\* variant: claim_task without its check of the task status
ClaimTaskErrAnyStatus(compute_node, t, s, max_task_cost) ==
    IF session[s].status # "Active" THEN "InvalidSessionStatus"
    ELSE IF task[t].compute_node # compute_node THEN "InvalidComputeNodePubkey"
    ELSE IF session[s].total_shares = 0 THEN "Overflow"
    ELSE IF Len(Candidates(s, compute_node)) < network_config.required_validations
        THEN "NotEnoughValidators"
    ELSE IF AvailableBalance(s) < 0 THEN "Underflow"
    ELSE IF AvailableBalance(s) < max_task_cost THEN "InsufficientBalance"
    ELSE "Ok"

ClaimTaskErr(compute_node, t, s, max_task_cost) ==
    IF task[t].status # "Pending" THEN "InvalidTaskStatus"
    ELSE IF session[s].status # "Active" THEN "InvalidSessionStatus"
    ELSE IF task[t].compute_node # compute_node THEN "InvalidComputeNodePubkey"
    ELSE IF session[s].total_shares = 0 THEN "Overflow"
    ELSE IF Len(Candidates(s, compute_node)) < network_config.required_validations
        THEN "NotEnoughValidators"
    ELSE IF AvailableBalance(s) < 0 THEN "Underflow"
    ELSE IF AvailableBalance(s) < max_task_cost THEN "InsufficientBalance"
    ELSE "Ok"

claim_task(compute_node, t, s, max_task_cost, slot) ==
    LET err == ClaimTaskErr(compute_node, t, s, max_task_cost)
    IN  /\ lastOp' = [Op("claim_task", err, compute_node, s, t, max_task_cost,
                           0, FALSE, NoKey) EXCEPT !.msg = [slot |-> slot]]
        /\ IF err = "Ok"
           THEN /\ task' = [task EXCEPT
                      ![t].validations =
                          DrawSlate(Candidates(s, compute_node),
                                    network_config.required_validations, slot),
                      ![t].max_task_cost = max_task_cost,
                      ![t].status = "Processing",
                      ![t].task_index = task[t].task_index + 1]
                /\ session' = [session EXCEPT ![s].locked_for_tasks =
                                  session[s].locked_for_tasks + max_task_cost]
           ELSE UNCHANGED <<task, session>>
        /\ UNCHANGED <<network_config, node, treasury, agent, vault,
                       contribution>>

-----------------------------------------------------------------------------
(* submit_task_result *)

\* variant: submit_task_result without its check of the caller
SubmitTaskResultErrAnyCaller(compute_node, t) ==
    IF task[t].status # "Processing" THEN "InvalidTaskStatus" ELSE "Ok"

SubmitTaskResultErr(compute_node, t) ==
    IF task[t].status # "Processing" THEN "InvalidTaskStatus"
    ELSE IF task[t].compute_node # compute_node THEN "InvalidComputeNodePubkey"
    ELSE "Ok"

submit_task_result(compute_node, t, input_cid, output_cid) ==
    LET err == SubmitTaskResultErr(compute_node, t)
    IN  /\ lastOp' = Op("submit_task_result", err, compute_node, 0, t, 0, 0,
                        FALSE, NoKey)
        /\ IF err = "Ok"
           THEN task' = [task EXCEPT ![t].pending_input_cid = input_cid,
                                     ![t].pending_output_cid = output_cid,
                                     ![t].status = "AwaitingValidation"]
           ELSE UNCHANGED task
        /\ UNCHANGED <<network_config, node, treasury, agent, session, vault,
                       contribution>>

-----------------------------------------------------------------------------
(* submit_public_task_validation / submit_confidential_task_validation *)

\* v: the signing validator, n: the node_info account passed as compute node
ValidateCommonErr(v, n, s, t) ==
    IF node[v].status = "Unregistered" \/ node[n].status = "Unregistered"
        THEN "AccountNotInitialized"
    ELSE IF node[v].status # "Active" THEN "InvalidNodeStatus"
    ELSE IF node[n].status # "Active" THEN "InvalidNodeStatus"
    ELSE IF session[s].status # "Active" THEN "InvalidSessionStatus"
    ELSE IF task[t].status # "AwaitingValidation" THEN "InvalidTaskStatus"
    ELSE IF task[t].compute_node # n THEN "InvalidComputeNodePubkey"
    ELSE "Ok"

\* variant: the slate lookup accepts a validator that has already voted
SlateErrNoDuplicateCheck(v, t) ==
    IF ~HasEntry(task[t].validations, v) THEN "ValidatorNotAssigned" ELSE "Ok"

\* the lookup of the caller in the task's slate
SlateErr(v, t) ==
    IF ~HasEntry(task[t].validations, v) THEN "ValidatorNotAssigned"
    ELSE IF task[t].validations[EntryIndex(task[t].validations, v)].status
                # "Pending"
        THEN "DuplicateValidation"
    ELSE "Ok"

ApprovedReached(v, t) ==
    check_validation_threshold(
        CountStatus(SetEntry(task[t].validations, v, "Approved"), "Approved"),
        network_config.required_validations)

RejectedReached(v, t) ==
    check_validation_threshold(
        CountStatus(SetEntry(task[t].validations, v, "Rejected"), "Rejected"),
        network_config.required_validations)

\* variant: the payment is not compared with the vault
PaymentAlwaysCovered(s, payment_amount) == TRUE

\* payment_amount accepted against the vault
PaymentCovered(s, payment_amount) == vault[s] >= payment_amount

ProcessApprovedErr(v, s, t, payment_amount) ==
    IF ~ApprovedReached(v, t) THEN "Ok"
    ELSE IF session[s].locked_for_tasks < task[t].max_task_cost THEN "Underflow"
    ELSE IF ~PaymentCovered(s, payment_amount) THEN "InsufficientBalance"
    ELSE "Ok"

ProcessRejectedErr(v, s, t) ==
    IF ~RejectedReached(v, t) THEN "Ok"
    ELSE IF session[s].locked_for_tasks < task[t].max_task_cost THEN "Underflow"
    ELSE "Ok"

\* variant: only the completion flag ends a session
SessionDoneByFlagOnly(s, session_completed) == session_completed

\* session_completed || (max_iterations != 0 && current_iteration >= max_iterations),
\* on the iteration count after the increment
SessionDone(s, session_completed) ==
    \/ session_completed
    \/ /\ session[s].max_iterations # 0
       /\ session[s].current_iteration + 1 >= session[s].max_iterations

\* variant: the proof is computed after the pending result is promoted
ApprovedTaskHashAfterPromotion(s, t, session_completed) ==
    [task[t] EXCEPT
        !.chain_proof = Sha256(<<task[t].chain_proof,
                                 CidBytes(task[t].pending_input_cid),
                                 CidBytes(task[t].pending_output_cid),
                                 task[t].task_index>>),
        !.input_cid = task[t].pending_input_cid,
        !.output_cid = task[t].pending_output_cid,
        !.pending_input_cid = NoCid,
        !.pending_output_cid = NoCid,
        !.status = IF SessionDone(s, session_completed) THEN "Ready"
                   ELSE "Pending",
        !.validations = <<>>]

\* the task account after an approval that reached the threshold
ApprovedTask(s, t, session_completed) ==
    [task[t] EXCEPT
        !.chain_proof = Sha256(<<task[t].chain_proof,
                                 CidBytes(task[t].input_cid),
                                 CidBytes(task[t].output_cid),
                                 task[t].task_index>>),
        !.input_cid = task[t].pending_input_cid,
        !.output_cid = task[t].pending_output_cid,
        !.pending_input_cid = NoCid,
        !.pending_output_cid = NoCid,
        !.status = IF SessionDone(s, session_completed) THEN "Ready"
                   ELSE "Pending",
        !.validations = <<>>]

\* variant: the approval leaves the task's lock in place
ApprovedSessionKeepsLock(s, t, session_completed) ==
    [session[s] EXCEPT
        !.current_iteration = session[s].current_iteration + 1,
        !.status = IF SessionDone(s, session_completed) THEN "Completed"
                   ELSE "Active"]

\* the session account after an approval that reached the threshold
ApprovedSession(s, t, session_completed) ==
    [session[s] EXCEPT
        !.locked_for_tasks = session[s].locked_for_tasks - task[t].max_task_cost,
        !.current_iteration = session[s].current_iteration + 1,
        !.status = IF SessionDone(s, session_completed) THEN "Completed"
                   ELSE "Active"]

process_approved_validation(v, n, s, t, payment_amount, session_completed) ==
    IF ~ApprovedReached(v, t)
    THEN /\ task' = [task EXCEPT ![t].validations =
                        SetEntry(task[t].validations, v, "Approved")]
         /\ UNCHANGED <<session, vault, treasury, node>>
    ELSE /\ task' = [task EXCEPT ![t] = ApprovedTask(s, t, session_completed)]
         /\ session' = [session EXCEPT ![s] =
                           ApprovedSession(s, t, session_completed)]
         /\ vault' = [vault EXCEPT ![s] = vault[s] - payment_amount]
         /\ treasury' = [treasury EXCEPT ![n] = treasury[n] + payment_amount]
         /\ node' = [node EXCEPT
                ![n].total_earned = node[n].total_earned + payment_amount,
                ![n].total_tasks_completed = node[n].total_tasks_completed + 1]

\* variant: the rejection keeps the pending result
RejectedTaskKeepsPending(t) ==
    [task[t] EXCEPT !.status = "Ready", !.validations = <<>>]

\* the task account after a rejection that reached the threshold
RejectedTask(t) ==
    [task[t] EXCEPT !.pending_input_cid = NoCid, !.pending_output_cid = NoCid,
                    !.status = "Ready", !.validations = <<>>]

process_rejected_validation(v, s, t) ==
    IF ~RejectedReached(v, t)
    THEN /\ task' = [task EXCEPT ![t].validations =
                        SetEntry(task[t].validations, v, "Rejected")]
         /\ UNCHANGED <<session, vault, treasury, node>>
    ELSE /\ task' = [task EXCEPT ![t] = RejectedTask(t)]
         /\ session' = [session EXCEPT ![s].locked_for_tasks =
                           session[s].locked_for_tasks - task[t].max_task_cost]
         /\ UNCHANGED <<vault, treasury, node>>

\* variant: submit_public_task_validation without its slate lookup
SubmitPublicErrAnyValidator(v, n, s, t, payment_amount, approved) ==
    IF ValidateCommonErr(v, n, s, t) # "Ok" THEN ValidateCommonErr(v, n, s, t)
    ELSE IF session[s].is_confidential THEN "InvalidSessionStatus"
    ELSE IF approved THEN ProcessApprovedErr(v, s, t, payment_amount)
    ELSE ProcessRejectedErr(v, s, t)

SubmitPublicErr(v, n, s, t, payment_amount, approved) ==
    IF ValidateCommonErr(v, n, s, t) # "Ok" THEN ValidateCommonErr(v, n, s, t)
    ELSE IF session[s].is_confidential THEN "InvalidSessionStatus"
    ELSE IF SlateErr(v, t) # "Ok" THEN SlateErr(v, t)
    ELSE IF approved THEN ProcessApprovedErr(v, s, t, payment_amount)
    ELSE ProcessRejectedErr(v, s, t)

\* lamports a validation call moves from the vault to the node treasury
Released(err, v, t, payment_amount, approved) ==
    IF err = "Ok" /\ approved /\ ApprovedReached(v, t) THEN payment_amount
    ELSE 0

\* the message the public path builds for an approving vote
PublicMessage(s, t, payment_amount, approved, goal_completed) ==
    IF approved
    THEN [goal_id |-> session[s].session_slot_id,
          task_slot_id |-> task[t].task_slot_id,
          payment_amount |-> payment_amount, validation_proof |-> ZeroHash,
          approved |-> approved, session_completed |-> goal_completed]
    ELSE NoMsg

submit_public_task_validation(v, n, s, t, payment_amount, approved, goal_completed) ==
    LET err == SubmitPublicErr(v, n, s, t, payment_amount, approved)
    IN  /\ lastOp' = [Op("submit_public_task_validation", err, v, s, t,
                           payment_amount,
                           Released(err, v, t, payment_amount, approved),
                           approved, n)
                        EXCEPT !.msg = PublicMessage(s, t, payment_amount,
                                                     approved, goal_completed)]
        /\ IF err # "Ok"
           THEN UNCHANGED <<task, session, vault, treasury, node>>
           ELSE IF approved
           THEN process_approved_validation(v, n, s, t, payment_amount,
                                            goal_completed)
           ELSE process_rejected_validation(v, s, t)
        /\ UNCHANGED <<network_config, agent, contribution>>

\* variant: verify_tee_signature without the comparison of the signing key
VerifyTeeSignatureErrAnyKey(ix, expected_tee_pubkey) ==
    IF ix.kind = "missing" THEN "InvalidInstructionSysvar"
    ELSE IF ix.kind = "other_program" THEN "BadEd25519Program"
    ELSE IF ix.kind = "with_accounts" THEN "BadEd25519Accounts"
    ELSE "Ok"

\* verify_tee_signature on the instruction before this one.  ix.kind says
\* what that instruction is; ix.key is the key whose signature the Ed25519
\* program verified over ix.msg.
VerifyTeeSignatureErr(ix, expected_tee_pubkey) ==
    IF ix.kind = "missing" THEN "InvalidInstructionSysvar"
    ELSE IF ix.kind = "other_program" THEN "BadEd25519Program"
    ELSE IF ix.kind = "with_accounts" THEN "BadEd25519Accounts"
    ELSE IF ix.key # expected_tee_pubkey THEN "InvalidValidatorTeeSigningPubkey"
    ELSE "Ok"

VerifyValidationProofErr(t, msg) ==
    IF task[t].pending_input_cid = NoCid \/ task[t].pending_output_cid = NoCid
        THEN "InvalidPDAAccount"
    ELSE IF msg.validation_proof
              # Sha256(<<task[t].pending_input_cid, task[t].pending_output_cid>>)
        THEN "InvalidTeeSignature"
    ELSE "Ok"

\* variant: verify_confidential_validation without verify_validation_proof
VerifyConfidentialErrAnyProof(v, s, t, ix) ==
    IF node[v].node_type # "Confidential" THEN "InvalidNodeType"
    ELSE IF node[v].tee_signing_pubkey = NoKey THEN "InvalidTeeSignature"
    ELSE IF VerifyTeeSignatureErr(ix, node[v].tee_signing_pubkey) # "Ok"
        THEN VerifyTeeSignatureErr(ix, node[v].tee_signing_pubkey)
    ELSE IF ix.msg.goal_id # session[s].session_slot_id
        THEN "InvalidValidatorMessage"
    ELSE IF ix.msg.task_slot_id # task[t].task_slot_id
        THEN "InvalidValidatorMessage"
    ELSE IF ix.msg.payment_amount = 0 THEN "Overflow"
    ELSE SlateErr(v, t)

VerifyConfidentialErr(v, s, t, ix) ==
    IF node[v].node_type # "Confidential" THEN "InvalidNodeType"
    ELSE IF node[v].tee_signing_pubkey = NoKey THEN "InvalidTeeSignature"
    ELSE IF VerifyTeeSignatureErr(ix, node[v].tee_signing_pubkey) # "Ok"
        THEN VerifyTeeSignatureErr(ix, node[v].tee_signing_pubkey)
    ELSE IF ix.msg.goal_id # session[s].session_slot_id
        THEN "InvalidValidatorMessage"
    ELSE IF ix.msg.task_slot_id # task[t].task_slot_id
        THEN "InvalidValidatorMessage"
    ELSE IF ix.msg.payment_amount = 0 THEN "Overflow"
    ELSE IF VerifyValidationProofErr(t, ix.msg) # "Ok"
        THEN VerifyValidationProofErr(t, ix.msg)
    ELSE SlateErr(v, t)

SubmitConfidentialErr(v, n, s, t, ix) ==
    IF ValidateCommonErr(v, n, s, t) # "Ok" THEN ValidateCommonErr(v, n, s, t)
    ELSE IF ~session[s].is_confidential THEN "InvalidSessionStatus"
    ELSE IF VerifyConfidentialErr(v, s, t, ix) # "Ok"
        THEN VerifyConfidentialErr(v, s, t, ix)
    ELSE IF ix.msg.approved
        THEN ProcessApprovedErr(v, s, t, ix.msg.payment_amount)
    ELSE ProcessRejectedErr(v, s, t)

submit_confidential_task_validation(v, n, s, t, ix) ==
    LET err == SubmitConfidentialErr(v, n, s, t, ix)
    IN  /\ lastOp' = [Op("submit_confidential_task_validation", err, v, s, t,
                           ix.msg.payment_amount,
                           Released(err, v, t, ix.msg.payment_amount,
                                    ix.msg.approved),
                           ix.msg.approved, ix.key)
                        EXCEPT !.msg = ix.msg,
                               !.accepted =
                                   IF err = "Ok"
                                   THEN @ \cup {[t |-> t,
                                                 task_index |-> task[t].task_index,
                                                 key |-> ix.key, msg |-> ix.msg]}
                                   ELSE @]
        /\ IF err # "Ok"
           THEN UNCHANGED <<task, session, vault, treasury, node>>
           ELSE IF ix.msg.approved
           THEN process_approved_validation(v, n, s, t, ix.msg.payment_amount,
                                            ix.msg.session_completed)
           ELSE process_rejected_validation(v, s, t)
        /\ UNCHANGED <<network_config, agent, contribution>>

-----------------------------------------------------------------------------
(* register_node, claim_public_node, validate_public_node *)

PoolCapacity == 10

RegisterNodeErr(n) ==
    IF node[n].status # "Unregistered" THEN "AccountAlreadyInUse" ELSE "Ok"

register_node(owner, n, node_type) ==
    LET err == RegisterNodeErr(n)
    IN  /\ lastOp' = Op("register_node", err, owner, 0, 0, 0, 0, FALSE, n)
        /\ IF err = "Ok"
           THEN /\ node' = [node EXCEPT ![n] =
                      [NoNode EXCEPT !.status = "PendingClaim",
                                     !.node_type = node_type, !.owner = owner]]
                /\ treasury' = [treasury EXCEPT ![n] = RentMin]
           ELSE UNCHANGED <<node, treasury>>
        /\ UNCHANGED <<network_config, agent, session, vault, task,
                       contribution>>

\* variant: claim_public_node without its check of the node's status
ClaimPublicNodeErrAnyStatus(n) ==
    IF node[n].status = "Unregistered" THEN "AccountNotInitialized"
    ELSE IF node[n].node_type # "Public" THEN "InvalidNodeType"
    ELSE "Ok"

ClaimPublicNodeErr(n) ==
    IF node[n].status = "Unregistered" THEN "AccountNotInitialized"
    ELSE IF node[n].node_type # "Public" THEN "InvalidNodeType"
    ELSE IF node[n].status # "PendingClaim" THEN "InvalidNodeStatus"
    ELSE "Ok"

claim_public_node(n, node_info_cid) ==
    LET err == ClaimPublicNodeErr(n)
    IN  /\ lastOp' = Op("claim_public_node", err, n, 0, 0, 0, 0, FALSE, n)
        /\ IF err = "Ok"
           THEN node' = [node EXCEPT ![n].node_info_cid = node_info_cid,
                                     ![n].status = "AwaitingValidation"]
           ELSE UNCHANGED node
        /\ UNCHANGED <<network_config, treasury, agent, session, vault, task,
                       contribution>>

\* NetworkConfig::is_measurement_approved
is_measurement_approved(measurement) ==
    \E i \in 1..Len(network_config.approved_code_measurements) :
        network_config.approved_code_measurements[i].measurement = measurement

\* NetworkConfig::add_confidential_node
add_confidential_node(pool, n) ==
    IF Len(pool) + 1 > PoolCapacity THEN pool ELSE Append(pool, n)

\* NetworkConfig::increment_validator_node_count, called when a confidential
\* node is claimed: the node joins the approved confidential pool
increment_validator_node_count(n) ==
    [network_config EXCEPT !.approved_confidential_nodes =
        add_confidential_node(network_config.approved_confidential_nodes, n)]

\* variant: claim_confidential_node without its check of the measurement
ClaimConfidentialNodeErrAnyMeasurement(n, code_measurement) ==
    IF node[n].status = "Unregistered" THEN "AccountNotInitialized"
    ELSE IF node[n].node_type # "Confidential" THEN "InvalidNodeType"
    ELSE IF node[n].status # "PendingClaim" THEN "InvalidNodeStatus"
    ELSE "Ok"

ClaimConfidentialNodeErr(n, code_measurement) ==
    IF node[n].status = "Unregistered" THEN "AccountNotInitialized"
    ELSE IF node[n].node_type # "Confidential" THEN "InvalidNodeType"
    ELSE IF node[n].status # "PendingClaim" THEN "InvalidNodeStatus"
    ELSE IF ~is_measurement_approved(code_measurement)
        THEN "CodeMeasurementNotApproved"
    ELSE "Ok"

claim_confidential_node(n, code_measurement, tee_signing_pubkey) ==
    LET err == ClaimConfidentialNodeErr(n, code_measurement)
    IN  /\ lastOp' = [Op("claim_confidential_node", err, n, 0, 0, 0, 0, FALSE,
                           tee_signing_pubkey)
                        EXCEPT !.msg = [code_measurement |-> code_measurement]]
        /\ IF err = "Ok"
           THEN /\ node' = [node EXCEPT
                      ![n].code_measurement = code_measurement,
                      ![n].tee_signing_pubkey = tee_signing_pubkey,
                      ![n].status = "Active"]
                /\ network_config' = increment_validator_node_count(n)
           ELSE UNCHANGED <<node, network_config>>
        /\ UNCHANGED <<treasury, agent, session, vault, task, contribution>>

\* NetworkConfig::add_public_node
add_public_node(pool, n) ==
    IF Len(pool) + 1 > PoolCapacity THEN pool ELSE Append(pool, n)

\* NetworkConfig::increment_public_node_count, called when a public node's
\* approvals reach the threshold: the node joins the approved public pool
increment_public_node_count(n) ==
    [network_config EXCEPT !.approved_public_nodes =
        add_public_node(network_config.approved_public_nodes, n)]

\* variant: validate_public_node without its check for an earlier vote
ValidatePublicNodeErrNoDuplicateCheck(v, n) ==
    IF node[v].status = "Unregistered" \/ node[n].status = "Unregistered"
        THEN "AccountNotInitialized"
    ELSE IF node[v].status # "Active" THEN "InvalidNodeStatus"
    ELSE IF node[n].status # "AwaitingValidation" THEN "InvalidNodeStatus"
    ELSE IF node[v].node_type \notin {"Public", "Confidential"}
        THEN "InvalidNodeType"
    ELSE IF node[n].node_type # "Public" THEN "InvalidNodeType"
    ELSE "Ok"

\* variant: validate_public_node without its check of the voter's status
ValidatePublicNodeErrAnyVoter(v, n) ==
    IF node[v].status = "Unregistered" \/ node[n].status = "Unregistered"
        THEN "AccountNotInitialized"
    ELSE IF node[n].status # "AwaitingValidation" THEN "InvalidNodeStatus"
    ELSE IF node[v].node_type \notin {"Public", "Confidential"}
        THEN "InvalidNodeType"
    ELSE IF node[n].node_type # "Public" THEN "InvalidNodeType"
    ELSE IF Contains(node[n].approved_validators, v)
            \/ Contains(node[n].rejected_validators, v)
        THEN "DuplicateValidation"
    ELSE "Ok"

\* v: the signing validator, n: the node voted on
ValidatePublicNodeErr(v, n) ==
    IF node[v].status = "Unregistered" \/ node[n].status = "Unregistered"
        THEN "AccountNotInitialized"
    ELSE IF node[v].status # "Active" THEN "InvalidNodeStatus"
    ELSE IF node[n].status # "AwaitingValidation" THEN "InvalidNodeStatus"
    ELSE IF node[v].node_type \notin {"Public", "Confidential"}
        THEN "InvalidNodeType"
    ELSE IF node[n].node_type # "Public" THEN "InvalidNodeType"
    ELSE IF Contains(node[n].approved_validators, v)
            \/ Contains(node[n].rejected_validators, v)
        THEN "DuplicateValidation"
    ELSE "Ok"

validate_public_node(v, n, approved) ==
    LET err  == ValidatePublicNodeErr(v, n)
        reached == check_validation_threshold(
                       Len(node[n].approved_validators) + 1,
                       network_config.required_validations)
    IN  /\ lastOp' = Op("validate_public_node", err, v, 0, 0, 0, 0, approved, n)
        /\ IF err # "Ok" THEN UNCHANGED <<node, network_config>>
           ELSE IF approved
           THEN /\ node' = [node EXCEPT
                      ![n].approved_validators =
                          Append(node[n].approved_validators, v),
                      ![n].status = IF reached THEN "Active"
                                    ELSE node[n].status]
                /\ network_config' = IF reached
                                     THEN increment_public_node_count(n)
                                     ELSE network_config
           ELSE /\ node' = [node EXCEPT
                      ![n].rejected_validators =
                          Append(node[n].rejected_validators, v),
                      ![n].status = "Rejected"]
                /\ UNCHANGED network_config
        /\ UNCHANGED <<treasury, agent, session, vault, task, contribution>>

-----------------------------------------------------------------------------
(* activate_node: the registry authority promotes a node without a vote. *)

\* the review data activate_node requires of a node of each type
HasReviewData(n) ==
    IF node[n].node_type = "Public"
    THEN node[n].node_info_cid # NoCid
    ELSE node[n].code_measurement # NoKey /\ node[n].tee_signing_pubkey # NoKey

\* variant: activate_node without the has_one check of the signer
ActivateNodeErrAnySigner(signer, n) ==
    IF node[n].status = "Unregistered" THEN "AccountNotInitialized"
    ELSE IF node[n].status # "AwaitingValidation" THEN "InvalidNodeStatus"
    ELSE IF ~HasReviewData(n) THEN "InvalidNodeStatus"
    ELSE "Ok"

ActivateNodeErr(signer, n) ==
    IF node[n].status = "Unregistered" THEN "AccountNotInitialized"
    ELSE IF network_config.authority # signer THEN "InvalidAuthority"
    ELSE IF node[n].status # "AwaitingValidation" THEN "InvalidNodeStatus"
    ELSE IF ~HasReviewData(n) THEN "InvalidNodeStatus"
    ELSE "Ok"

activate_node(signer, n) ==
    LET err == ActivateNodeErr(signer, n)
    IN  /\ lastOp' = Op("activate_node", err, signer, 0, 0, 0, 0, FALSE, n)
        /\ IF err = "Ok"
           THEN /\ node' = [node EXCEPT ![n].status = "Active"]
                /\ network_config' =
                      IF node[n].node_type = "Public"
                      THEN [network_config EXCEPT !.approved_public_nodes =
                               add_public_node(@, n)]
                      ELSE [network_config EXCEPT !.approved_confidential_nodes =
                               add_confidential_node(@, n)]
           ELSE UNCHANGED <<node, network_config>>
        /\ UNCHANGED <<treasury, agent, session, vault, task, contribution>>

-----------------------------------------------------------------------------
(* update_network_config: the authority replaces the configuration         *)
(* reference and approves a code measurement.                              *)

MeasurementCapacity == 10

NoMeasurement == [measurement |-> NoKey, version |-> 0]   \* Option::None
LongCid       == "a reference of 129 bytes"

\* variant: the new measurement is put last and the first entry is dropped
AddCodeMeasurementLast(list, measurement, version) ==
    LET grown == Append(list, [measurement |-> measurement, version |-> version])
    IN  IF Len(grown) > MeasurementCapacity THEN Tail(grown) ELSE grown

\* NetworkConfig::add_code_measurement
add_code_measurement(list, measurement, version) ==
    LET grown == <<[measurement |-> measurement, version |-> version]>> \o list
    IN  IF Len(grown) > MeasurementCapacity
        THEN SubSeq(grown, 1, Len(grown) - 1)
        ELSE grown

UpdateNetworkConfigErr(signer, cid_config) ==
    IF network_config.authority # signer THEN "ConstraintSeeds"
    ELSE IF cid_config = LongCid THEN "InvalidCID"
    ELSE "Ok"

update_network_config(signer, cid_config, new_code_measurement) ==
    LET err  == UpdateNetworkConfigErr(signer, cid_config)
        list == network_config.approved_code_measurements
    IN  /\ lastOp' = [Op("update_network_config", err, signer, 0, 0, 0, 0,
                           FALSE, cid_config)
                        EXCEPT !.msg = new_code_measurement]
        /\ IF err = "Ok"
           THEN network_config' = [network_config EXCEPT
                    !.cid_config = IF cid_config = NoCid THEN @ ELSE cid_config,
                    !.approved_code_measurements =
                        IF new_code_measurement = NoMeasurement
                           \/ is_measurement_approved(
                                  new_code_measurement.measurement)
                        THEN @
                        ELSE add_code_measurement(@,
                                 new_code_measurement.measurement,
                                 new_code_measurement.version)]
           ELSE UNCHANGED network_config
        /\ UNCHANGED <<node, treasury, agent, session, vault, task,
                       contribution>>

-----------------------------------------------------------------------------
(* Start states and inputs.                                                *)
(*                                                                         *)
(* Every specification starts from a registry that has been initialised,   *)
(* with nodes already activated and in the approved pools in activation    *)
(* order, one agent approved, and the sessions of SessionIds created with  *)
(* their tasks (session 1 public and owned by alice, session 2             *)
(* confidential and unowned).  A specification is given by a record c of   *)
(* the inputs its actions try; c.pairs holds the <<session, task>> account *)
(* pairs passed together.                                                  *)

\* agent 1 has been validated; agent 2 has been created and not validated
AgentIds == {1, 2}

\* A failed instruction is reverted: the state after it differs from the state
\* before it only in lastOp.  A behaviour is followed up to its first failed
\* instruction, which loses no account state.
Running == lastOp.err = "Ok"

EngineNodes ==
    [n \in NodeIds |->
        IF n \in PublicNodes THEN ActiveNode("Public", n)
        ELSE IF n \in ConfidentialNodes THEN ActiveNode("Confidential", n)
        ELSE NoNode]

EngineInit(quorums) ==
    /\ \E q \in quorums :
          network_config =
              [authority |-> Authority, required_validations |-> q,
               approved_public_nodes |-> <<"P1", "P2", "P3">>,
               approved_confidential_nodes |-> <<"C1", "C2", "C3">>,
               approved_code_measurements |->
                   <<[measurement |-> "m1", version |-> 1]>>,
               cid_config |-> "cfg"]
    /\ node = EngineNodes
    /\ treasury = [n \in NodeIds |-> IF n \in CandidateNodes THEN 0 ELSE RentMin]
    /\ agent = [a \in AgentIds |->
                  [status |-> IF a = 1 THEN "Active" ELSE "Pending"]]
    /\ session = [i \in SessionIds |->
                     IF i = 1 THEN NewSession(i, "alice", FALSE)
                     ELSE NewSession(i, NoKey, TRUE)]
    /\ vault = [i \in SessionIds |-> 0]
    /\ task = [i \in TaskIds |-> NewTask(i)]
    /\ contribution = [k \in SessionIds \X Contributors |-> NoContribution]
    /\ lastOp = NoOp

\* the Ed25519 instructions tried before a confidential validation by v
EdIxs(c, v, s, t) ==
    {[kind |-> kd, key |-> k,
      msg |-> [goal_id |-> g, task_slot_id |-> tk, payment_amount |-> p,
               validation_proof |-> pr, approved |-> ap,
               session_completed |-> dn]] :
        kd \in c.ix_kinds, k \in {TeeKeyOf(v)} \cup c.other_keys,
        g \in {session[s].session_slot_id} \cup c.other_goals,
        tk \in {task[t].task_slot_id} \cup c.other_tasks,
        p \in c.payments,
        pr \in {Sha256(<<task[t].pending_input_cid, task[t].pending_output_cid>>)}
                 \cup c.other_proofs,
        ap \in c.approvals, dn \in c.dones}

SetSession(c) ==
    /\ Running
    /\ \E owner \in c.owners, st \in c.pairs, a \in c.agents,
          mi \in c.iter_caps, d \in c.deposits, n \in c.computes :
           /\ vault[st[1]] + d + RentMin <= c.max_vault
           /\ set_session(owner, st[1], st[2], a, mi, d, n)

FundVault(c) ==
    /\ Running
    /\ \E who \in c.contributors, st \in c.pairs, d \in c.deposits :
           /\ vault[st[1]] + d <= c.max_vault
           /\ fund_vault(who, st[1], d)

ContributeToSession(c) ==
    /\ Running
    /\ \E who \in c.contributors, st \in c.pairs, d \in c.deposits :
           /\ vault[st[1]] + d <= c.max_vault
           /\ session[st[1]].total_shares + SharesToMint(st[1], d)
                 <= c.max_shares
           /\ contribute_to_session(who, st[1], d)

WithdrawFromSession(c) ==
    /\ Running
    /\ \E who \in c.contributors, st \in c.pairs, b \in c.burns :
           withdraw_from_session(who, st[1], b)

SubmitTask(c) ==
    /\ Running
    /\ \E o \in c.owners, st \in c.pairs, i \in c.inputs :
           submit_task(o, st[2], st[1], i)

ClaimTask(c) ==
    /\ Running
    /\ \E n \in c.claimants, st \in c.pairs, m \in c.costs, slot \in c.slots :
           /\ task[st[2]].task_index < c.max_task_index
           /\ claim_task(n, st[2], st[1], m, slot)

SubmitTaskResult(c) ==
    /\ Running
    /\ \E n \in c.claimants, st \in c.pairs, i \in c.inputs, o \in c.outputs :
           submit_task_result(n, st[2], i, o)

SubmitPublicTaskValidation(c) ==
    /\ Running
    /\ \E v \in c.validators, n \in c.claimants, st \in c.pairs,
          p \in c.payments, ap \in c.approvals, dn \in c.dones :
           submit_public_task_validation(v, n, st[1], st[2], p, ap, dn)

SubmitConfidentialTaskValidation(c) ==
    /\ Running
    /\ \E v \in c.validators, n \in c.claimants, st \in c.pairs :
           \E ix \in EdIxs(c, v, st[1], st[2]) :
               submit_confidential_task_validation(v, n, st[1], st[2], ix)

RegisterNode(c) ==
    /\ Running
    /\ \E n \in c.candidates, k \in c.node_types :
           register_node("operator", n, k)

ClaimPublicNode(c) ==
    /\ Running
    /\ \E n \in c.candidates, cid \in c.inputs : claim_public_node(n, cid)

ClaimConfidentialNode(c) ==
    /\ Running
    /\ \E n \in c.candidates, m \in c.measurements :
           claim_confidential_node(n, m, TeeKeyOf(n))

ValidatePublicNode(c) ==
    /\ Running
    /\ \E v \in c.validators, n \in c.candidates, ap \in c.approvals :
           validate_public_node(v, n, ap)

ActivateNode(c) ==
    /\ Running
    /\ \E signer \in c.signers, n \in c.candidates : activate_node(signer, n)

UpdateNetworkConfig(c) ==
    /\ Running
    /\ \E signer \in c.signers, cid \in c.cid_configs,
          m \in c.new_measurements :
           update_network_config(signer, cid, m)

-----------------------------------------------------------------------------
(* Spec: one public session with its task, quorum 1 or 2, one contributor.  *)

SpecInputs ==
    [owners |-> {"alice"}, contributors |-> {"alice"},
     agents |-> {1},
     pairs |-> {<<1, 1>>}, other_goals |-> {}, other_tasks |-> {},
     iter_caps |-> 0..MaxIterCap, deposits |-> 1..MaxDeposit,
     burns |-> {1}, max_vault |-> MaxVault, max_shares |-> MaxShares,
     computes |-> {"P1"}, claimants |-> {"P1"},
     costs |-> 0..MaxCost, slots |-> {0}, max_task_index |-> MaxTaskIndex,
     inputs |-> {"x"}, outputs |-> {"y"},
     validators |-> {"P2", "P3"}, payments |-> 0..MaxPayment,
     approvals |-> BOOLEAN, dones |-> BOOLEAN,
     ix_kinds |-> {"ed25519"}, other_keys |-> {}, other_proofs |-> {}]

Init == EngineInit(1..MaxQuorum)

Next ==
    \/ SetSession(SpecInputs)
    \/ ContributeToSession(SpecInputs)
    \/ WithdrawFromSession(SpecInputs)
    \/ SubmitTask(SpecInputs)
    \/ ClaimTask(SpecInputs)
    \/ SubmitTaskResult(SpecInputs)
    \/ SubmitPublicTaskValidation(SpecInputs)

Spec == Init /\ [][Next]_vars

-----------------------------------------------------------------------------
(* Properties of Spec *)

ValidationOps ==
    {"submit_public_task_validation", "submit_confidential_task_validation"}

\* the approvals recorded on task t
ApprovedCount(t) == CountStatus(task[t].validations, "Approved")

\* this step is a successful approving vote on lastOp'.t against lastOp'.s
ApprovalStep ==
    /\ lastOp'.op \in ValidationOps
    /\ lastOp'.err = "Ok"
    /\ lastOp'.flag

\* this step is a successful rejecting vote
RejectionStep ==
    /\ lastOp'.op \in ValidationOps
    /\ lastOp'.err = "Ok"
    /\ ~lastOp'.flag

\* C1: after any sequence of operations, the vault of every activated
\* session holds at least locked_for_tasks plus the rent-exempt minimum.
C1_EscrowCoversLock ==
    \A s \in SessionIds :
        session[s].status # "Pending" =>
            vault[s] >= session[s].locked_for_tasks + RentMin

\* C3: with quorum q, a successful approval that brings the approved count
\* to less than q moves no lamports and changes neither the lock, the task
\* status nor the iteration; the approval that brings the count to q moves
\* exactly the payment amount of that vote from the vault to the compute
\* node's treasury, takes the task out of AwaitingValidation and advances
\* the iteration.
C3_QuorumGatesRelease ==
    [][ApprovalStep =>
        LET s == lastOp'.s
            t == lastOp'.t
            n == task[t].compute_node
            q == network_config.required_validations
        IN  /\ ApprovedCount(t) + 1 < q =>
                /\ vault' = vault
                /\ treasury' = treasury
                /\ session'[s].locked_for_tasks = session[s].locked_for_tasks
                /\ task'[t].status = task[t].status
                /\ session'[s].current_iteration = session[s].current_iteration
                /\ session'[s].status = session[s].status
                /\ CountStatus(task'[t].validations, "Approved")
                      = ApprovedCount(t) + 1
            /\ ApprovedCount(t) + 1 = q =>
                /\ vault'[s] = vault[s] - lastOp'.amt
                /\ treasury'[n] = treasury[n] + lastOp'.amt
                /\ task'[t].status \in {"Pending", "Ready"}
                /\ session'[s].current_iteration
                      = session[s].current_iteration + 1
    ]_vars

\* a quorum of 2 was reached: the second approval released a payment
C3_Witness ==
    /\ lastOp.op = "submit_public_task_validation"
    /\ lastOp.err = "Ok" /\ lastOp.flag
    /\ network_config.required_validations = 2
    /\ lastOp.out = 2
    /\ treasury["P1"] = RentMin + 2

\* C4: when an approval reaches the threshold for a task claimed with
\* ceiling L and the vote declares payment P: locked_for_tasks falls by L,
\* the vault falls by P, the compute node's treasury and total_earned rise
\* by P, its total_tasks_completed and the session's current_iteration rise
\* by 1, and the pending input/output become the certified input/output,
\* leaving the pending fields empty.
C4_ApprovalEffects ==
    [][(ApprovalStep /\ ApprovedReached(lastOp'.who, lastOp'.t)) =>
        LET s == lastOp'.s
            t == lastOp'.t
            n == task[t].compute_node
            P == lastOp'.amt
            L == task[t].max_task_cost
        IN  /\ session'[s].locked_for_tasks = session[s].locked_for_tasks - L
            /\ vault'[s] = vault[s] - P
            /\ treasury'[n] = treasury[n] + P
            /\ node'[n].total_earned = node[n].total_earned + P
            /\ node'[n].total_tasks_completed
                  = node[n].total_tasks_completed + 1
            /\ session'[s].current_iteration
                  = session[s].current_iteration + 1
            /\ task'[t].input_cid = task[t].pending_input_cid
            /\ task'[t].output_cid = task[t].pending_output_cid
            /\ task'[t].pending_input_cid = NoCid
            /\ task'[t].pending_output_cid = NoCid
    ]_vars

\* an approval reached the threshold on a task claimed with ceiling 1 and
\* was paid 2
C4_Witness ==
    /\ lastOp.op = "submit_public_task_validation"
    /\ lastOp.err = "Ok" /\ lastOp.flag
    /\ lastOp.out = 2
    /\ task[lastOp.t].max_task_cost = 1
    /\ task[lastOp.t].output_cid = "y"
    /\ node["P1"].total_tasks_completed = 1

\* C5: claim_task on a task that is Processing or AwaitingValidation fails
\* and leaves the task, its slate and locked_for_tasks unchanged.
C5_ClaimedTaskNotClaimable ==
    [][(/\ lastOp'.op = "claim_task"
        /\ task[lastOp'.t].status \in {"Processing", "AwaitingValidation"}) =>
        /\ lastOp'.err = "InvalidTaskStatus"
        /\ task' = task
        /\ session' = session
    ]_vars

\* a claim was tried on a task whose result awaits validation
C5_Witness ==
    /\ lastOp.op = "claim_task"
    /\ lastOp.err # "Ok"
    /\ task[lastOp.t].status = "AwaitingValidation"
    /\ task[lastOp.t].validations # <<>>

\* C10: when rejections reach the threshold, the task's ceiling is released
\* from locked_for_tasks, the pending input/output are discarded, the task
\* becomes Ready with an empty slate; the vault, the treasuries and
\* earnings, the iteration, the certified input/output and chain_proof are
\* unchanged.
C10_RejectionEffects ==
    [][(RejectionStep /\ RejectedReached(lastOp'.who, lastOp'.t)) =>
        LET s == lastOp'.s
            t == lastOp'.t
        IN  /\ session'[s].locked_for_tasks
                  = session[s].locked_for_tasks - task[t].max_task_cost
            /\ task'[t].pending_input_cid = NoCid
            /\ task'[t].pending_output_cid = NoCid
            /\ task'[t].status = "Ready"
            /\ task'[t].validations = <<>>
            /\ vault' = vault
            /\ treasury' = treasury
            /\ node' = node
            /\ session'[s].current_iteration = session[s].current_iteration
            /\ session'[s].status = session[s].status
            /\ task'[t].input_cid = task[t].input_cid
            /\ task'[t].output_cid = task[t].output_cid
            /\ task'[t].chain_proof = task[t].chain_proof
    ]_vars

\* a second rejection reached a quorum of 2 on a task with a certified
\* result and a ceiling of 1
C10_Witness ==
    /\ lastOp.op = "submit_public_task_validation"
    /\ lastOp.err = "Ok" /\ ~lastOp.flag
    /\ network_config.required_validations = 2
    /\ task[lastOp.t].status = "Ready"
    /\ task[lastOp.t].output_cid = "y"
    /\ task[lastOp.t].max_task_cost = 1
    /\ session[lastOp.s].locked_for_tasks = 0

\* C12: an approval that reaches the threshold advances the iteration; if
\* its completion flag is set, or max_iterations is not 0 and the new
\* current_iteration has reached it, the session becomes Completed and the
\* task Ready; otherwise the session stays Active and the task becomes
\* Pending.  With max_iterations = 0 only the flag completes the session.
C12_CompletionRule ==
    [][(ApprovalStep /\ ApprovedReached(lastOp'.who, lastOp'.t)) =>
        LET s    == lastOp'.s
            t    == lastOp'.t
            done == lastOp'.msg.session_completed
            cap  == session[s].max_iterations
        IN  /\ session'[s].current_iteration
                  = session[s].current_iteration + 1
            /\ IF done \/ (cap # 0 /\ session'[s].current_iteration >= cap)
               THEN /\ session'[s].status = "Completed"
                    /\ task'[t].status = "Ready"
               ELSE /\ session'[s].status = "Active"
                    /\ task'[t].status = "Pending"
    ]_vars

\* an approval without the completion flag reached the threshold and the
\* session's cap of 1 iteration completed it
C12_Witness ==
    /\ lastOp.op = "submit_public_task_validation"
    /\ lastOp.err = "Ok" /\ lastOp.flag
    /\ ~lastOp.msg.session_completed
    /\ session[lastOp.s].max_iterations = 1
    /\ session[lastOp.s].current_iteration = 1
    /\ session[lastOp.s].status = "Completed"
    /\ task[lastOp.t].status = "Ready"

\* C14: immediately after a successful set_session the task passed to it
\* is Pending, so that its compute node can claim it without a further step.
C14_ActivationLeavesTaskPending ==
    [][(lastOp'.op = "set_session" /\ lastOp'.err = "Ok") =>
        task'[lastOp'.t].status = "Pending"
    ]_vars

-----------------------------------------------------------------------------
(* SpecLedger: one public session with two contributors; a single          *)
(* validator approves, so that payments move the share price.              *)

LedgerInputs ==
    [owners |-> {"alice"}, contributors |-> {"alice", "bob"},
     agents |-> {1},
     pairs |-> {<<1, 1>>}, other_goals |-> {}, other_tasks |-> {},
     iter_caps |-> {0}, deposits |-> 1..MaxDeposit,
     burns |-> 1..MaxBurn, max_vault |-> MaxVault, max_shares |-> MaxShares,
     computes |-> {"P1"}, claimants |-> {"P1"},
     costs |-> 0..MaxCost, slots |-> {0}, max_task_index |-> MaxTaskIndex,
     inputs |-> {"x"}, outputs |-> {"y"},
     validators |-> {"P2"}, payments |-> 0..MaxPayment,
     approvals |-> {TRUE}, dones |-> {FALSE},
     ix_kinds |-> {"ed25519"}, other_keys |-> {}, other_proofs |-> {}]

LedgerInit == EngineInit({1})

LedgerNext ==
    \/ SetSession(LedgerInputs)
    \/ ContributeToSession(LedgerInputs)
    \/ WithdrawFromSession(LedgerInputs)
    \/ SubmitTask(LedgerInputs)
    \/ ClaimTask(LedgerInputs)
    \/ SubmitTaskResult(LedgerInputs)
    \/ SubmitPublicTaskValidation(LedgerInputs)

SpecLedger == LedgerInit /\ [][LedgerNext]_vars

\* the shares held in the contribution records of session s
ContributionShares(s) ==
    LET RECURSIVE SumOver(_)
        SumOver(S) ==
            IF S = {} THEN 0
            ELSE LET x == CHOOSE y \in S : TRUE
                 IN  contribution[<<s, x>>].shares + SumOver(S \ {x})
    IN  SumOver(Contributors)

\* C2: after any sequence of operations, every session's total_shares equals
\* the sum of the shares in that session's contribution records.
C2_SharesAddUp ==
    \A s \in SessionIds : session[s].total_shares = ContributionShares(s)

\* bob has just withdrawn from a session in which alice and bob both still
\* hold shares and whose share price is not 1
C2_Witness ==
    /\ lastOp.op = "withdraw_from_session" /\ lastOp.err = "Ok"
    /\ lastOp.who = "bob"
    /\ contribution[<<1, "alice">>].shares > 0
    /\ contribution[<<1, "bob">>].shares > 0
    /\ AvailableBalance(1) # session[1].total_shares

-----------------------------------------------------------------------------
(* SpecRoundTrip: one contributor, amounts large enough for the share      *)
(* price to rise above 1.                                                  *)

RoundTripInputs ==
    [owners |-> {"alice"}, contributors |-> {"alice"},
     agents |-> {1},
     pairs |-> {<<1, 1>>}, other_goals |-> {}, other_tasks |-> {},
     iter_caps |-> {0}, deposits |-> (RtMaxDeposit - 1)..RtMaxDeposit,
     burns |-> {1}, max_vault |-> RtMaxVault, max_shares |-> RtMaxDeposit,
     computes |-> {"P1"}, claimants |-> {"P1"},
     costs |-> {RtMaxDeposit - 1}, slots |-> {0}, max_task_index |-> 1,
     inputs |-> {"x"}, outputs |-> {"y"},
     validators |-> {"P2"}, payments |-> {0},
     approvals |-> BOOLEAN, dones |-> {FALSE},
     ix_kinds |-> {"ed25519"}, other_keys |-> {}, other_proofs |-> {}]

RoundTripNext ==
    \/ SetSession(RoundTripInputs)
    \/ ContributeToSession(RoundTripInputs)
    \/ WithdrawFromSession(RoundTripInputs)
    \/ SubmitTask(RoundTripInputs)
    \/ ClaimTask(RoundTripInputs)
    \/ SubmitTaskResult(RoundTripInputs)
    \/ SubmitPublicTaskValidation(RoundTripInputs)

SpecRoundTrip == LedgerInit /\ [][RoundTripNext]_vars

\* this step is a successful withdrawal, by the contributor of the deposit
\* before it, of exactly the shares that deposit minted
RoundTripStep ==
    /\ lastOp.op = "contribute_to_session" /\ lastOp.err = "Ok"
    /\ lastOp'.op = "withdraw_from_session" /\ lastOp'.err = "Ok"
    /\ lastOp'.who = lastOp.who /\ lastOp'.s = lastOp.s
    /\ lastOp'.amt = lastOp.out

\* C9: a contributor who deposits d, receiving s shares, and immediately
\* withdraws exactly s shares is paid p with d - 1 <= p <= d.
C9_RoundTripWithinOne ==
    [][RoundTripStep =>
        /\ lastOp.amt - 1 <= lastOp'.out
        /\ lastOp'.out <= lastOp.amt
    ]_vars

-----------------------------------------------------------------------------
(* SpecVotes: a public and a confidential session under a quorum of 2 or   *)
(* more, and a public node awaiting its validation votes.                  *)

VotesInputs ==
    [owners |-> {"alice"}, contributors |-> {},
     agents |-> {1},
     pairs |-> {<<1, 1>>, <<2, 2>>}, other_goals |-> {}, other_tasks |-> {},
     iter_caps |-> {0}, deposits |-> {1},
     burns |-> {}, max_vault |-> MaxVault, max_shares |-> MaxShares,
     computes |-> {"P1", "C1"}, claimants |-> {"P1", "C1"},
     costs |-> {1}, slots |-> {0}, max_task_index |-> 1,
     inputs |-> {"x"}, outputs |-> {"y"},
     validators |-> {"P2", "P3", "C2"}, payments |-> {1},
     approvals |-> BOOLEAN, dones |-> {FALSE},
     ix_kinds |-> {"ed25519"}, other_keys |-> {}, other_proofs |-> {},
     candidates |-> {"P4"}, node_types |-> {"Public"}]

VotesInit == EngineInit(2..MaxQuorum)

VotesNext ==
    \/ SetSession(VotesInputs)
    \/ SubmitTask(VotesInputs)
    \/ ClaimTask(VotesInputs)
    \/ SubmitTaskResult(VotesInputs)
    \/ SubmitPublicTaskValidation(VotesInputs)
    \/ SubmitConfidentialTaskValidation(VotesInputs)
    \/ RegisterNode(VotesInputs)
    \/ ClaimPublicNode(VotesInputs)
    \/ ValidatePublicNode(VotesInputs)

SpecVotes == VotesInit /\ [][VotesNext]_vars

\* validator v has cast a vote on task t that is still recorded in its slate
HasVoted(v, t) ==
    /\ HasEntry(task[t].validations, v)
    /\ task[t].validations[EntryIndex(task[t].validations, v)].status # "Pending"

\* the error codes of the checks a task validation makes before it looks
\* the caller up in the slate
BeforeSlateErrors ==
    {"AccountNotInitialized", "InvalidNodeStatus", "InvalidSessionStatus",
     "InvalidTaskStatus", "InvalidComputeNodePubkey", "InvalidNodeType",
     "InvalidTeeSignature", "InvalidInstructionSysvar", "BadEd25519Program",
     "BadEd25519Accounts", "InvalidValidatorTeeSigningPubkey",
     "InvalidValidatorMessage", "Overflow", "InvalidPDAAccount"}

-----------------------------------------------------------------------------
(* SpecAttest: the confidential session, with attestations signed by the   *)
(* validator's TEE key or by another key, over well-formed and malformed   *)
(* messages.                                                               *)

AttestInputs ==
    [owners |-> {"alice"}, contributors |-> {},
     agents |-> {1},
     pairs |-> {<<2, 2>>}, other_goals |-> {1}, other_tasks |-> {},
     iter_caps |-> {0}, deposits |-> {MaxDeposit},
     burns |-> {}, max_vault |-> MaxVault, max_shares |-> MaxShares,
     computes |-> {"C1"}, claimants |-> {"C1"},
     costs |-> {MaxCost}, slots |-> {0}, max_task_index |-> 1,
     inputs |-> {"x"}, outputs |-> {"y"},
     validators |-> {"C2", "C3"}, payments |-> {0, 1},
     approvals |-> BOOLEAN, dones |-> {FALSE},
     ix_kinds |-> {"ed25519", "missing"},
     other_keys |-> {AttackerKey, TeeKeyOf("C1")},
     other_proofs |-> {Sha256(<<"forged">>)},
     candidates |-> {}]

AttestNext ==
    \/ SetSession(AttestInputs)
    \/ SubmitTask(AttestInputs)
    \/ ClaimTask(AttestInputs)
    \/ SubmitTaskResult(AttestInputs)
    \/ SubmitConfidentialTaskValidation(AttestInputs)

SpecAttest == Init /\ [][AttestNext]_vars

\* C7: submit_confidential_task_validation fails whenever the key that
\* signed the attestation differs from the calling validator's registered
\* tee_signing_pubkey, whatever the message says, and then no lamports move
\* and no task, session or node state changes.
C7_ForeignKeyRefused ==
    [][(/\ lastOp'.op = "submit_confidential_task_validation"
        /\ lastOp'.key # node[lastOp'.who].tee_signing_pubkey) =>
        /\ lastOp'.err # "Ok"
        /\ UNCHANGED <<task, session, vault, treasury, node, network_config,
                       contribution, agent>>
    ]_vars

\* an assigned validator that has not voted submitted a message with the
\* right session id, task id, proof and a positive payment, signed by a
\* key that is not its own, and was refused
C7_Witness ==
    /\ lastOp.op = "submit_confidential_task_validation"
    /\ lastOp.err = "InvalidValidatorTeeSigningPubkey"
    /\ lastOp.key = AttackerKey
    /\ task[lastOp.t].status = "AwaitingValidation"
    /\ session[lastOp.s].status = "Active"
    /\ SlateErr(lastOp.who, lastOp.t) = "Ok"
    /\ lastOp.msg.goal_id = session[lastOp.s].session_slot_id
    /\ lastOp.msg.task_slot_id = task[lastOp.t].task_slot_id
    /\ lastOp.msg.payment_amount > 0
    /\ VerifyValidationProofErr(lastOp.t, lastOp.msg) = "Ok"
    /\ vault[lastOp.s] >= lastOp.msg.payment_amount

\* C11: in the confidential path one valid TEE-signed approval certifies
\* the task: after that single successful call the payment has moved from
\* the vault to the compute node's treasury, the iteration has advanced and
\* the task is no longer AwaitingValidation.
C11_OneAttestedApprovalCertifies ==
    [][(/\ lastOp'.op = "submit_confidential_task_validation"
        /\ lastOp'.err = "Ok"
        /\ lastOp'.flag) =>
        LET s == lastOp'.s
            t == lastOp'.t
            n == task[t].compute_node
        IN  /\ vault'[s] = vault[s] - lastOp'.amt
            /\ treasury'[n] = treasury[n] + lastOp'.amt
            /\ session'[s].current_iteration
                  = session[s].current_iteration + 1
            /\ task'[t].status # "AwaitingValidation"
    ]_vars

-----------------------------------------------------------------------------
(* SpecCross: both sessions and both tasks, every session account passed   *)
(* with every task account.                                                *)

CrossInputs ==
    [owners |-> {"alice"}, contributors |-> {},
     agents |-> {1},
     pairs |-> SessionIds \X TaskIds, other_goals |-> {}, other_tasks |-> {},
     iter_caps |-> {0}, deposits |-> {MaxDeposit},
     burns |-> {}, max_vault |-> MaxVault, max_shares |-> MaxShares,
     computes |-> {"P1", "C1"}, claimants |-> {"P1", "C1"},
     costs |-> {MaxCost}, slots |-> {0}, max_task_index |-> 1,
     inputs |-> {"x"}, outputs |-> {"y"},
     validators |-> {"P2", "C2"}, payments |-> {1},
     approvals |-> {TRUE}, dones |-> {FALSE},
     ix_kinds |-> {"ed25519"}, other_keys |-> {}, other_proofs |-> {},
     candidates |-> {}]

CrossNext ==
    \/ SetSession(CrossInputs)
    \/ SubmitTask(CrossInputs)
    \/ ClaimTask(CrossInputs)
    \/ SubmitTaskResult(CrossInputs)
    \/ SubmitPublicTaskValidation(CrossInputs)
    \/ SubmitConfidentialTaskValidation(CrossInputs)

SpecCross == LedgerInit /\ [][CrossNext]_vars

\* the node kind a session asks for
SessionKind(s) == IF session[s].is_confidential THEN "Confidential" ELSE "Public"

\* C8: claim_task succeeds only when the task is Pending, the session is
\* Active, the claimant is an Active node whose kind matches the session's
\* confidentiality requirement, and vault - rent - locked_for_tasks covers
\* the requested ceiling; on success locked_for_tasks rises by exactly the
\* ceiling, and the task records the ceiling and becomes Processing.
C8_ClaimOnlyWhenEligible ==
    [][(lastOp'.op = "claim_task" /\ lastOp'.err = "Ok") =>
        LET s == lastOp'.s
            t == lastOp'.t
            n == lastOp'.who
        IN  /\ task[t].status = "Pending"
            /\ session[s].status = "Active"
            /\ node[n].status = "Active"
            /\ node[n].node_type = SessionKind(s)
            /\ AvailableBalance(s) >= lastOp'.amt
            /\ session'[s].locked_for_tasks
                  = session[s].locked_for_tasks + lastOp'.amt
            /\ task'[t].max_task_cost = lastOp'.amt
            /\ task'[t].status = "Processing"
    ]_vars

-----------------------------------------------------------------------------
(* SpecActivate: activation of either session with either task and either  *)
(* agent, by either contributor, with deposits from 0 and vaults that may  *)
(* have been paid into beforehand.                                         *)

ActivateInputs ==
    [owners |-> Contributors,
     agents |-> AgentIds,
     contributors |-> {"bob"},
     pairs |-> SessionIds \X TaskIds, other_goals |-> {}, other_tasks |-> {},
     iter_caps |-> {0}, deposits |-> 0..MaxDeposit,
     burns |-> {}, max_vault |-> MaxVault, max_shares |-> MaxShares,
     computes |-> {"P1", "C1"}, claimants |-> {},
     costs |-> {}, slots |-> {0}, max_task_index |-> 1,
     inputs |-> {"x"}, outputs |-> {},
     validators |-> {}, payments |-> {},
     approvals |-> {}, dones |-> {},
     ix_kinds |-> {}, other_keys |-> {}, other_proofs |-> {},
     candidates |-> {}]

ActivateNext ==
    \/ SetSession(ActivateInputs)
    \/ FundVault(ActivateInputs)
    \/ SubmitTask(ActivateInputs)

SpecActivate == LedgerInit /\ [][ActivateNext]_vars

\* C13: set_session succeeds only if the session is Pending, the task is
\* Ready, the agent passed is Active, the initial deposit is positive and
\* the vault holds at most the rent-exempt minimum; on success the session
\* is Active, total_shares equals the deposit and the owner's contribution
\* record holds exactly that many shares.
C13_ActivationRule ==
    [][(lastOp'.op = "set_session" /\ lastOp'.err = "Ok") =>
        LET s == lastOp'.s
            t == lastOp'.t
            o == lastOp'.who
            d == lastOp'.amt
        IN  /\ session[s].status = "Pending"
            /\ task[t].status = "Ready"
            /\ agent[lastOp'.msg.agent_slot_id].status = "Active"
            /\ d > 0
            /\ vault[s] <= RentMin
            /\ session'[s].status = "Active"
            /\ session'[s].total_shares = d
            /\ contribution'[<<s, o>>].exists
            /\ contribution'[<<s, o>>].shares = d
    ]_vars

\* session 2 was activated by bob with a deposit of 2 while session 1 is
\* still Pending over a vault that was paid into
C13_Witness ==
    /\ lastOp.op = "set_session" /\ lastOp.err = "Ok"
    /\ lastOp.s = 2 /\ lastOp.who = "bob" /\ lastOp.amt = 2
    /\ session[2].total_shares = 2
    /\ contribution[<<2, "bob">>].shares = 2
    /\ session[1].status = "Pending"
    /\ vault[1] > RentMin

-----------------------------------------------------------------------------
(* SpecShares: one public session, one contributor, a quorum of 1 and      *)
(* amounts large enough for the f64 share arithmetic to round.  Shares     *)
(* burnt while the vault is locked for a task pay nothing, and a later     *)
(* rejection releases the lock, which moves the share price off 1.         *)

SharesInputs ==
    [owners |-> {"alice"},
     agents |-> {1},
     contributors |-> {"alice"},
     pairs |-> {<<1, 1>>}, other_goals |-> {}, other_tasks |-> {},
     iter_caps |-> {0}, deposits |-> {0, 9, 15},
     burns |-> {0, 1, 11}, max_vault |-> 25, max_shares |-> 24,
     computes |-> {"P1"}, claimants |-> {"P1"},
     costs |-> {9, 15}, slots |-> {0}, max_task_index |-> 1,
     inputs |-> {"x"}, outputs |-> {"y"},
     validators |-> {"P2"}, payments |-> {0},
     approvals |-> {FALSE}, dones |-> {FALSE},
     ix_kinds |-> {"ed25519"}, other_keys |-> {}, other_proofs |-> {},
     candidates |-> {}]

SharesNext ==
    \/ SetSession(SharesInputs)
    \/ ContributeToSession(SharesInputs)
    \/ WithdrawFromSession(SharesInputs)
    \/ SubmitTask(SharesInputs)
    \/ ClaimTask(SharesInputs)
    \/ SubmitTaskResult(SharesInputs)
    \/ SubmitPublicTaskValidation(SharesInputs)

SpecShares == LedgerInit /\ [][SharesNext]_vars

\* every account but lastOp is as it was
AccountsUnchanged ==
    UNCHANGED <<network_config, node, treasury, agent, session, vault, task,
                contribution>>

-----------------------------------------------------------------------------
(* SpecEnroll: two nodes are registered, as public or confidential, claim  *)
(* their records and, when public, are voted on by a public node, a        *)
(* confidential node and a node that is not Active, under a quorum of 1 or *)
(* 2.                                                                      *)

EnrollInputs ==
    [candidates |-> CandidateNodes, node_types |-> {"Public", "Confidential"},
     inputs |-> {"x"}, measurements |-> {"m1", "m0"},
     validators |-> {"P2", "C2", "C4"}, approvals |-> BOOLEAN]

EnrollNext ==
    \/ RegisterNode(EnrollInputs)
    \/ ClaimPublicNode(EnrollInputs)
    \/ ClaimConfidentialNode(EnrollInputs)
    \/ ValidatePublicNode(EnrollInputs)

SpecEnroll == Init /\ [][EnrollNext]_vars

\* C18: claim_confidential_node with a code measurement that is not in the
\* approved list fails before anything is written: the node is still
\* PendingClaim with no measurement and no TEE key, and the approved pools
\* are unchanged.
C18_UnapprovedMeasurementRefused ==
    [][(/\ lastOp'.op = "claim_confidential_node"
        /\ ~is_measurement_approved(lastOp'.msg.code_measurement)) =>
        /\ lastOp'.err # "Ok"
        /\ AccountsUnchanged
        /\ node[lastOp'.who].status = "PendingClaim" =>
              /\ node'[lastOp'.who].status = "PendingClaim"
              /\ node'[lastOp'.who].code_measurement = NoKey
              /\ node'[lastOp'.who].tee_signing_pubkey = NoKey
    ]_vars

\* confidential node C4, registered and not yet claimed, was refused with
\* a measurement that is not approved
C18_Witness ==
    /\ lastOp.op = "claim_confidential_node"
    /\ lastOp.err = "CodeMeasurementNotApproved"
    /\ lastOp.who = "C4"
    /\ node["C4"].status = "PendingClaim"
    /\ node["C4"].node_type = "Confidential"
    /\ node["C4"].code_measurement = NoKey
    /\ ~Contains(network_config.approved_confidential_nodes, "C4")

\* the step is a successful vote on node n
VotedOn(n) ==
    /\ lastOp'.op = "validate_public_node"
    /\ lastOp'.err = "Ok"
    /\ lastOp'.key = n

C20_ConfidentialApprovalActivates ==
    [][(/\ VotedOn(lastOp'.key)
        /\ lastOp'.flag
        /\ node[lastOp'.who].node_type = "Confidential"
        /\ node[lastOp'.who].status = "Active"
        /\ node[lastOp'.key].status = "AwaitingValidation") =>
        node'[lastOp'.key].status = "Active"
    ]_vars

-----------------------------------------------------------------------------
(* Further properties of the validation cycle. *)

\* C24: the payment released by an approval that reaches the threshold
\* never exceeds the ceiling max_task_cost locked when the task was claimed.
C24_PaymentWithinCeiling ==
    [][(ApprovalStep /\ ApprovedReached(lastOp'.who, lastOp'.t)) =>
        /\ lastOp'.amt <= task[lastOp'.t].max_task_cost
        /\ vault[lastOp'.s] - vault'[lastOp'.s]
              <= task[lastOp'.t].max_task_cost
    ]_vars

\* C25: a task is never AwaitingValidation with every validator of its
\* slate having voted: the vote of the last Pending validator resolves the
\* task, so a lock is never held with nobody left who can vote.
C25_LastVoteResolves ==
    \A t \in TaskIds :
        task[t].status = "AwaitingValidation" =>
            CountStatus(task[t].validations, "Pending") > 0

\* C26: a task's lock and payout touch only the session the task belongs
\* to: claim_task and the task validations succeed only when called with
\* the session that owns the task, so the escrow of another session is
\* never locked or paid out, and no task is the task of two sessions.
C26_TaskTouchesOwnSessionOnly ==
    [][/\ (/\ lastOp'.op \in {"claim_task"} \cup ValidationOps
           /\ lastOp'.err = "Ok") =>
              /\ task[lastOp'.t].session_slot_id
                    = session[lastOp'.s].session_slot_id
              /\ session[lastOp'.s].task = lastOp'.t
              /\ \A s \in SessionIds \ {lastOp'.s} :
                    /\ session'[s] = session[s]
                    /\ vault'[s] = vault[s]
       /\ \A s1, s2 \in SessionIds :
              (/\ s1 # s2
               /\ session'[s1].status = "Active"
               /\ session'[s2].status = "Active") =>
                  session'[s1].task # session'[s2].task
    ]_vars

-----------------------------------------------------------------------------
(* SpecAdmin: the node lifecycle with the authority's direct promotion.    *)
(* The registry starts with three approved public nodes, or with the ten   *)
(* that fill the approved public pool.                                     *)

FillerNodes == {"P5", "P6", "P7", "P8", "P9", "P10", "P11"}

FullPublicPool ==
    <<"P1", "P2", "P3", "P5", "P6", "P7", "P8", "P9", "P10", "P11">>

AdminInputs ==
    [candidates |-> CandidateNodes, node_types |-> {"Public", "Confidential"},
     inputs |-> {"x"}, measurements |-> {"m1"},
     validators |-> {"P2", "C2"}, approvals |-> BOOLEAN,
     signers |-> {Authority, "operator"}]

AdminInit ==
    /\ \E q \in 1..MaxQuorum, full \in BOOLEAN :
          /\ network_config =
                [authority |-> Authority, required_validations |-> q,
                 approved_public_nodes |->
                     IF full THEN FullPublicPool ELSE <<"P1", "P2", "P3">>,
                 approved_confidential_nodes |-> <<"C1", "C2", "C3">>,
                 approved_code_measurements |->
                     <<[measurement |-> "m1", version |-> 1]>>,
                 cid_config |-> "cfg"]
          /\ node = [n \in NodeIds \cup FillerNodes |->
                        IF n \in NodeIds THEN EngineNodes[n]
                        ELSE IF full THEN ActiveNode("Public", n)
                        ELSE NoNode]
    /\ treasury = [n \in NodeIds |-> IF n \in CandidateNodes THEN 0 ELSE RentMin]
    /\ agent = [a \in AgentIds |->
                  [status |-> IF a = 1 THEN "Active" ELSE "Pending"]]
    /\ session = [i \in SessionIds |->
                     IF i = 1 THEN NewSession(i, "alice", FALSE)
                     ELSE NewSession(i, NoKey, TRUE)]
    /\ vault = [i \in SessionIds |-> 0]
    /\ task = [i \in TaskIds |-> NewTask(i)]
    /\ contribution = [k \in SessionIds \X Contributors |-> NoContribution]
    /\ lastOp = NoOp

AdminNext ==
    \/ RegisterNode(AdminInputs)
    \/ ClaimPublicNode(AdminInputs)
    \/ ClaimConfidentialNode(AdminInputs)
    \/ ValidatePublicNode(AdminInputs)
    \/ ActivateNode(AdminInputs)

SpecAdmin == AdminInit /\ [][AdminNext]_vars

\* C21: activate_node succeeds only when signed by the registry authority
\* and only on a node in AwaitingValidation that carries its review data (a
\* descriptor for a public node, a measurement and a TEE key for a
\* confidential one), and then sets the node Active; from any other signer,
\* or on a node in another status, it fails and changes nothing.
C21_ActivateNodeRule ==
    [][lastOp'.op = "activate_node" =>
        /\ lastOp'.err = "Ok" <=>
              /\ lastOp'.who = network_config.authority
              /\ node[lastOp'.key].status = "AwaitingValidation"
              /\ HasReviewData(lastOp'.key)
        /\ lastOp'.err = "Ok" =>
              /\ node'[lastOp'.key].status = "Active"
              /\ \A n \in DOMAIN node \ {lastOp'.key} : node'[n] = node[n]
        /\ lastOp'.err # "Ok" => AccountsUnchanged
    ]_vars

\* the authority has promoted public node P4, which had no vote
C21_Witness ==
    /\ lastOp.op = "activate_node"
    /\ lastOp.err = "Ok"
    /\ lastOp.who = Authority
    /\ lastOp.key = "P4"
    /\ node["P4"].status = "Active"
    /\ node["P4"].approved_validators = <<>>

\* the approved pool of a node's kind
PoolOfKind(n) ==
    IF node[n].node_type = "Confidential"
    THEN network_config.approved_confidential_nodes
    ELSE network_config.approved_public_nodes

\* C22: whenever a node's status becomes Active, by claim_confidential_node,
\* by validate_public_node reaching the quorum or by activate_node, its key
\* is in the approved pool of its kind in the resulting state.
C22_ActiveNodeIsPooled ==
    [][\A n \in DOMAIN node :
          (node[n].status # "Active" /\ node'[n].status = "Active") =>
              Contains(PoolOfKind(n)', n)
    ]_vars

-----------------------------------------------------------------------------
(* SpecRegistry: the authority and another signer update the registry      *)
(* while confidential nodes register and claim.  The approved measurement  *)
(* list starts with one entry or with the ten that fill it.                *)

\* ten approved measurements, the most recent first
FullMeasurementNames ==
    <<"m10", "m9", "m8", "m7", "m6", "m5", "m4", "m3", "m2", "m1">>

FullMeasurementList ==
    [i \in 1..Len(FullMeasurementNames) |->
        [measurement |-> FullMeasurementNames[i], version |-> 1]]

RegistryInputs ==
    [candidates |-> CandidateNodes, node_types |-> {"Confidential", "Public"},
     measurements |-> {"m1", "m0"},
     signers |-> {Authority, "operator"},
     cid_configs |-> {NoCid, "cfg2", LongCid},
     new_measurements |->
         {NoMeasurement} \cup
         [measurement : {"m0", "m1", "m10"}, version : {1, 2}]]

RegistryInit ==
    /\ \E full \in BOOLEAN :
          network_config =
              [authority |-> Authority, required_validations |-> 1,
               approved_public_nodes |-> <<"P1", "P2", "P3">>,
               approved_confidential_nodes |-> <<"C1", "C2", "C3">>,
               approved_code_measurements |->
                   IF full THEN FullMeasurementList
                   ELSE <<[measurement |-> "m1", version |-> 1]>>,
               cid_config |-> "cfg"]
    /\ node = EngineNodes
    /\ treasury = [n \in NodeIds |-> IF n \in CandidateNodes THEN 0 ELSE RentMin]
    /\ agent = [a \in AgentIds |->
                  [status |-> IF a = 1 THEN "Active" ELSE "Pending"]]
    /\ session = [i \in SessionIds |->
                     IF i = 1 THEN NewSession(i, "alice", FALSE)
                     ELSE NewSession(i, NoKey, TRUE)]
    /\ vault = [i \in SessionIds |-> 0]
    /\ task = [i \in TaskIds |-> NewTask(i)]
    /\ contribution = [k \in SessionIds \X Contributors |-> NoContribution]
    /\ lastOp = NoOp

RegistryNext ==
    \/ UpdateNetworkConfig(RegistryInputs)
    \/ RegisterNode(RegistryInputs)
    \/ ClaimConfidentialNode(RegistryInputs)

SpecRegistry == RegistryInit /\ [][RegistryNext]_vars

\* the measurements of a list, in order
MeasurementsOf(list) == [i \in 1..Len(list) |-> list[i].measurement]

\* C23: the approved measurement list never holds more than 10 entries and
\* is most-recent-first: update_network_config with a measurement that is
\* not in the list puts it at index 0 and, when the list was full, drops
\* the last (oldest) entry; with a measurement already in the list it
\* leaves the list unchanged; only the registry authority can call it.
C23_MeasurementListRule ==
    [][LET old == network_config.approved_code_measurements
           new == network_config'.approved_code_measurements
           m   == lastOp'.msg
       IN  /\ Len(new) <= 10
           /\ lastOp'.op # "update_network_config" => new = old
           /\ lastOp'.op = "update_network_config" =>
                 /\ lastOp'.who # network_config.authority =>
                       (lastOp'.err # "Ok" /\ AccountsUnchanged)
                 /\ lastOp'.err # "Ok" => new = old
                 /\ (lastOp'.err = "Ok" /\ m = NoMeasurement) => new = old
                 /\ (lastOp'.err = "Ok" /\ m # NoMeasurement) =>
                       IF Contains(MeasurementsOf(old), m.measurement)
                       THEN new = old
                       ELSE /\ new[1] = m
                            /\ Tail(new) =
                                  IF Len(old) = 10 THEN SubSeq(old, 1, 9)
                                  ELSE old
    ]_vars

\* the list was full and a new measurement was approved: it is first and
\* the oldest entry, m1, is gone
C23_Witness ==
    /\ lastOp.op = "update_network_config"
    /\ lastOp.err = "Ok"
    /\ lastOp.msg # NoMeasurement
    /\ lastOp.msg.measurement = "m0"
    /\ Len(network_config.approved_code_measurements) = 10
    /\ network_config.approved_code_measurements[1].measurement = "m0"
    /\ network_config.approved_code_measurements[10].measurement = "m2"
    /\ ~is_measurement_approved("m1")

-----------------------------------------------------------------------------
(* SpecMessage: the confidential session, with attestations signed by the  *)
(* validator's own TEE key over messages that name the right or another    *)
(* session, the right or another task, a zero or positive payment and the  *)
(* right or a forged proof, from validators in and outside the slate.      *)

MessageInputs ==
    [AttestInputs EXCEPT !.other_tasks = {1}, !.ix_kinds = {"ed25519"},
                         !.other_keys = {}]

MessageNext ==
    \/ SetSession(MessageInputs)
    \/ SubmitTask(MessageInputs)
    \/ ClaimTask(MessageInputs)
    \/ SubmitTaskResult(MessageInputs)
    \/ SubmitConfidentialTaskValidation(MessageInputs)

SpecMessage == Init /\ [][MessageNext]_vars

\* validator v has a Pending entry in the slate of task t
PendingInSlate(v, t) ==
    \E i \in 1..Len(task[t].validations) :
        /\ task[t].validations[i].pubkey = v
        /\ task[t].validations[i].status = "Pending"

\* the conditions on a signed message from validator v for session s, task t
MessageAcceptable(v, s, t, msg) ==
    /\ msg.goal_id = session[s].session_slot_id
    /\ msg.task_slot_id = task[t].task_slot_id
    /\ msg.payment_amount > 0
    /\ msg.validation_proof
          = Sha256(<<task[t].pending_input_cid, task[t].pending_output_cid>>)
    /\ PendingInSlate(v, t)

\* C27: the attested path accepts a signed message only if its session id
\* and task id are those of the accounts, its payment is positive, its
\* proof is the hash of the task's pending input and output, and the caller
\* has a Pending entry in the slate; any other message, approving or
\* rejecting, fails and changes nothing.
C27_MessageChecks ==
    [][(/\ lastOp'.op = "submit_confidential_task_validation"
        /\ ~MessageAcceptable(lastOp'.who, lastOp'.s, lastOp'.t, lastOp'.msg))
        => (lastOp'.err # "Ok" /\ AccountsUnchanged)
    ]_vars

\* a rejecting message with a forged proof, otherwise in order and signed
\* by the assigned validator's own key, was refused
C27_Witness ==
    /\ lastOp.op = "submit_confidential_task_validation"
    /\ lastOp.err = "InvalidTeeSignature"
    /\ ~lastOp.msg.approved
    /\ lastOp.key = node[lastOp.who].tee_signing_pubkey
    /\ lastOp.msg.goal_id = session[lastOp.s].session_slot_id
    /\ lastOp.msg.task_slot_id = task[lastOp.t].task_slot_id
    /\ lastOp.msg.payment_amount > 0
    /\ lastOp.msg.validation_proof = Sha256(<<"forged">>)
    /\ PendingInSlate(lastOp.who, lastOp.t)
    /\ task[lastOp.t].status = "AwaitingValidation"

-----------------------------------------------------------------------------
(* SpecReplay: the confidential session over two iterations of its task,   *)
(* the compute node submitting the same references each time.              *)

ReplayInputs ==
    [AttestInputs EXCEPT !.max_task_index = 2, !.payments = {1},
                         !.other_goals = {}, !.ix_kinds = {"ed25519"},
                         !.other_keys = {}, !.other_proofs = {}]

ReplayNext ==
    \/ SetSession(ReplayInputs)
    \/ SubmitTask(ReplayInputs)
    \/ ClaimTask(ReplayInputs)
    \/ SubmitTaskResult(ReplayInputs)
    \/ SubmitConfidentialTaskValidation(ReplayInputs)

SpecReplay == Init /\ [][ReplayNext]_vars

\* C28: a TEE-signed message accepted for one iteration of a task is not
\* accepted again for a later iteration of the same task, even when the
\* compute node submits the same input and output references.
C28_NoReplayAcrossIterations ==
    [][(/\ lastOp'.op = "submit_confidential_task_validation"
        /\ lastOp'.err = "Ok") =>
        \A a \in lastOp.accepted :
            ~(/\ a.t = lastOp'.t
              /\ a.task_index < task[lastOp'.t].task_index
              /\ a.key = lastOp'.key
              /\ a.msg = lastOp'.msg)
    ]_vars

-----------------------------------------------------------------------------
(* SpecSlate: both sessions over two iterations, claims at several slots,  *)
(* under a quorum of 1 up to one more than the candidates a pool can give. *)

SlateInputs ==
    [owners |-> {"alice"}, agents |-> {1},
     pairs |-> {<<1, 1>>, <<2, 2>>}, other_goals |-> {}, other_tasks |-> {},
     iter_caps |-> {0}, deposits |-> {MaxDeposit}, max_vault |-> MaxVault,
     computes |-> {"P1", "P2", "C3"}, claimants |-> {"P1", "P2", "C3"},
     costs |-> {0}, slots |-> {0, 1, 5}, max_task_index |-> 2,
     inputs |-> {"x"}, outputs |-> {"y"},
     validators |-> {"P1", "P2", "P3"}, payments |-> {0},
     approvals |-> BOOLEAN, dones |-> {FALSE}]

SlateInit == EngineInit(1..(MaxQuorum + 1))

SlateNext ==
    \/ SetSession(SlateInputs)
    \/ SubmitTask(SlateInputs)
    \/ ClaimTask(SlateInputs)
    \/ SubmitTaskResult(SlateInputs)
    \/ SubmitPublicTaskValidation(SlateInputs)

SpecSlate == SlateInit /\ [][SlateNext]_vars

\* C29: a successful claim_task leaves a fresh slate of exactly
\* required_validations entries, all Pending, all distinct, all from the
\* approved pool of the session's kind, none the claimant, taken cyclically
\* from index (slot mod number of candidates); with fewer candidates than
\* required_validations claim_task fails, with NotEnoughValidators once its
\* earlier checks pass, and changes nothing.
C29_SlateRule ==
    [][lastOp'.op = "claim_task" =>
        LET s    == lastOp'.s
            t    == lastOp'.t
            who  == lastOp'.who
            slot == lastOp'.msg.slot
            pool == ApprovedPool(s)
            cand == Candidates(s, who)
            q    == network_config.required_validations
            vals == task'[t].validations
        IN  /\ lastOp'.err = "Ok" =>
                  /\ Len(vals) = q
                  /\ \A i \in 1..Len(vals) :
                        /\ vals[i].status = "Pending"
                        /\ Contains(pool, vals[i].pubkey)
                        /\ vals[i].pubkey # who
                        /\ vals[i].pubkey =
                              cand[(((slot % Len(cand)) + (i - 1)) % Len(cand)) + 1]
                  /\ \A i, j \in 1..Len(vals) :
                        i # j => vals[i].pubkey # vals[j].pubkey
            /\ Len(cand) < q =>
                  /\ lastOp'.err # "Ok"
                  /\ AccountsUnchanged
                  /\ (/\ task[t].status = "Pending"
                      /\ session[s].status = "Active"
                      /\ task[t].compute_node = who
                      /\ session[s].total_shares > 0) =>
                        lastOp'.err = "NotEnoughValidators"
    ]_vars

\* the second claim of task 1, by P1 at slot 1 under a quorum of 2, drew
\* <<P3, P2>>, wrapping round the two candidates
C29_Witness ==
    /\ lastOp.op = "claim_task"
    /\ lastOp.err = "Ok"
    /\ lastOp.who = "P1"
    /\ lastOp.msg.slot = 1
    /\ network_config.required_validations = 2
    /\ task[lastOp.t].task_index = 2
    /\ task[lastOp.t].validations =
          <<[pubkey |-> "P3", status |-> "Pending"],
            [pubkey |-> "P2", status |-> "Pending"]>>

-----------------------------------------------------------------------------
(* SpecCommittee: the public and the confidential session, with votes in   *)
(* the committee path from validators in the slate, from Active nodes      *)
(* outside it and from a node that is registered and not Active.           *)

CommitteeInputs ==
    [owners |-> {"alice"}, agents |-> {1},
     pairs |-> {<<1, 1>>, <<2, 2>>},
     iter_caps |-> {0}, deposits |-> {MaxDeposit}, max_vault |-> MaxVault,
     computes |-> {"P1", "C1"}, claimants |-> {"P1", "C1"},
     costs |-> {MaxCost}, slots |-> {0}, max_task_index |-> 1,
     inputs |-> {"x"}, outputs |-> {"y"},
     validators |-> {"P2", "P3", "C2", "P4"}, payments |-> {1},
     approvals |-> BOOLEAN, dones |-> {FALSE},
     candidates |-> {"P4"}, node_types |-> {"Public"}]

CommitteeNext ==
    \/ SetSession(CommitteeInputs)
    \/ SubmitTask(CommitteeInputs)
    \/ ClaimTask(CommitteeInputs)
    \/ SubmitTaskResult(CommitteeInputs)
    \/ SubmitPublicTaskValidation(CommitteeInputs)
    \/ RegisterNode(CommitteeInputs)
    \/ ClaimPublicNode(CommitteeInputs)

SpecCommittee == Init /\ [][CommitteeNext]_vars

\* C30: in the committee path a vote is accepted only from an Active
\* validator that is in the task's slate, and only while the task is
\* AwaitingValidation on an Active session that is not confidential; a
\* validator outside the slate fails, with ValidatorNotAssigned once the
\* checks before the lookup pass, and changes nothing.
C30_CommitteeVoteRule ==
    [][lastOp'.op = "submit_public_task_validation" =>
        LET v == lastOp'.who
            s == lastOp'.s
            t == lastOp'.t
        IN  /\ lastOp'.err = "Ok" =>
                  /\ node[v].status = "Active"
                  /\ PendingInSlate(v, t)
                  /\ task[t].status = "AwaitingValidation"
                  /\ session[s].status = "Active"
                  /\ ~session[s].is_confidential
            /\ ~HasEntry(task[t].validations, v) =>
                  /\ lastOp'.err # "Ok"
                  /\ AccountsUnchanged
                  /\ (/\ node[v].status = "Active"
                      /\ node[lastOp'.key].status = "Active"
                      /\ task[t].compute_node = lastOp'.key
                      /\ task[t].status = "AwaitingValidation"
                      /\ session[s].status = "Active"
                      /\ ~session[s].is_confidential) =>
                        lastOp'.err = "ValidatorNotAssigned"
    ]_vars

\* under a quorum of 1 the slate of task 1 is <<P2>>; Active node P3 voted
\* on it and was refused
C30_Witness ==
    /\ lastOp.op = "submit_public_task_validation"
    /\ lastOp.err = "ValidatorNotAssigned"
    /\ lastOp.who = "P3"
    /\ node["P3"].status = "Active"
    /\ task[lastOp.t].status = "AwaitingValidation"
    /\ task[lastOp.t].validations = <<[pubkey |-> "P2", status |-> "Pending"]>>

-----------------------------------------------------------------------------
(* Further properties of the registry and of the node lifecycle. *)

\* C31: the approved pools never exceed their capacity, and activating a
\* node when the pool of its kind is full evicts the oldest entry, so that
\* the activated node is in the pool afterwards.
C31_PoolEvictsOldest ==
    [][/\ Len(network_config'.approved_public_nodes) <= PoolCapacity
       /\ Len(network_config'.approved_confidential_nodes) <= PoolCapacity
       /\ (lastOp'.op = "activate_node" /\ lastOp'.err = "Ok") =>
              LET n   == lastOp'.key
                  old == PoolOfKind(n)
                  new == IF node[n].node_type = "Confidential"
                         THEN network_config'.approved_confidential_nodes
                         ELSE network_config'.approved_public_nodes
              IN  /\ Contains(new, n)
                  /\ new = IF Len(old) = PoolCapacity
                           THEN Append(Tail(old), n)
                           ELSE Append(old, n)
    ]_vars

-----------------------------------------------------------------------------
(* Further properties of sessions and tasks. *)

\* C32: every failed operation leaves all accounts unchanged; in
\* particular an approval that reaches the threshold while the vault holds
\* less than the declared payment fails, the validator's vote is not
\* recorded, the lock is not released and the task stays
\* AwaitingValidation, so that the same validator can vote again.
C32_FailureChangesNothing ==
    [][/\ lastOp'.err # "Ok" => AccountsUnchanged
       /\ (/\ lastOp'.op \in ValidationOps
           /\ lastOp'.flag
           /\ task[lastOp'.t].status = "AwaitingValidation"
           /\ PendingInSlate(lastOp'.who, lastOp'.t)
           /\ ApprovedReached(lastOp'.who, lastOp'.t)
           /\ vault[lastOp'.s] < lastOp'.amt) =>
              /\ lastOp'.err # "Ok"
              /\ task'[lastOp'.t] = task[lastOp'.t]
              /\ session'[lastOp'.s] = session[lastOp'.s]
              /\ vault' = vault
    ]_vars

\* a threshold-reaching approval failed for lack of funds: the voter's
\* entry is still Pending, the lock is held and the task awaits validation
C32_Witness ==
    /\ lastOp.op = "submit_public_task_validation"
    /\ lastOp.err = "InsufficientBalance"
    /\ lastOp.flag
    /\ vault[lastOp.s] < lastOp.amt
    /\ task[lastOp.t].status = "AwaitingValidation"
    /\ PendingInSlate(lastOp.who, lastOp.t)
    /\ session[lastOp.s].locked_for_tasks = task[lastOp.t].max_task_cost

\* C33: a task's status changes only along Ready -> Pending (submit_task),
\* Pending -> Processing (claim_task), Processing -> AwaitingValidation
\* (submit_task_result), AwaitingValidation -> Pending or Ready (an approval
\* that reaches the threshold) and AwaitingValidation -> Ready (a rejection
\* that reaches the threshold). A payout is made only by a threshold approval
\* on a task that is AwaitingValidation with a submitted result and an
\* assigned compute node, and it moves the task out of AwaitingValidation, so
\* between two payouts of a task lie a claim and a result submission.
C33_TaskStatusEdges ==
    [][/\ \A t \in TaskIds :
             task'[t].status # task[t].status =>
                /\ lastOp'.err = "Ok" /\ lastOp'.t = t
                /\ LET from == task[t].status   to == task'[t].status
                       op == lastOp'.op
                   IN  \/ from = "Ready" /\ to = "Pending" /\ op = "submit_task"
                       \/ from = "Pending" /\ to = "Processing"
                             /\ op = "claim_task"
                       \/ from = "Processing" /\ to = "AwaitingValidation"
                             /\ op = "submit_task_result"
                       \/ from = "AwaitingValidation"
                             /\ to \in {"Pending", "Ready"} /\ ApprovalStep
                       \/ from = "AwaitingValidation" /\ to = "Ready"
                             /\ RejectionStep
       /\ (\E s \in SessionIds : vault'[s] < vault[s]
              /\ lastOp'.op \in ValidationOps) =>
             /\ ApprovalStep
             /\ task[lastOp'.t].status = "AwaitingValidation"
             /\ task[lastOp'.t].pending_output_cid # NoCid
             /\ task[lastOp'.t].compute_node # NoKey
             /\ task'[lastOp'.t].status \in {"Pending", "Ready"}
             /\ session'[lastOp'.s].current_iteration =
                    session[lastOp'.s].current_iteration + 1
    ]_vars

\* a second payout on the same task: the task went round the cycle twice
C33_Witness ==
    /\ lastOp.op \in ValidationOps /\ lastOp.err = "Ok" /\ lastOp.flag
    /\ lastOp.amt > 0
    /\ session[lastOp.s].current_iteration = 2
    /\ task[lastOp.t].status = "Pending"
    /\ task[lastOp.t].task_index = 2

\* C34: a node's status changes only along PendingClaim -> AwaitingValidation
\* (claim_public_node), PendingClaim -> Active (claim_confidential_node with
\* an approved measurement), AwaitingValidation -> Active (a vote that reaches
\* the quorum, or activate_node), AwaitingValidation -> Rejected (a rejecting
\* vote) and Active -> Disabled; so a node never returns to an earlier status,
\* a Rejected node never becomes Active, and a node record, once created by
\* register_node, is never deleted.
C34_NodeStatusEdges ==
    [][\A n \in DOMAIN node :
          LET from == node[n].status   to == node'[n].status
              op == lastOp'.op
          IN  /\ from # "Unregistered" => to # "Unregistered"
              /\ from = "Rejected" => to = "Rejected"
              /\ from # to =>
                   /\ lastOp'.err = "Ok"
                   /\ \/ from = "Unregistered" /\ to = "PendingClaim"
                            /\ op = "register_node" /\ lastOp'.key = n
                      \/ from = "PendingClaim" /\ to = "AwaitingValidation"
                            /\ op = "claim_public_node" /\ lastOp'.who = n
                      \/ from = "PendingClaim" /\ to = "Active"
                            /\ op = "claim_confidential_node"
                            /\ lastOp'.who = n
                            /\ node[n].node_type = "Confidential"
                            /\ is_measurement_approved(
                                   lastOp'.msg.code_measurement)
                      \/ from = "AwaitingValidation" /\ to = "Active"
                            /\ lastOp'.key = n
                            /\ \/ op = "validate_public_node" /\ lastOp'.flag
                               \/ op = "activate_node"
                      \/ from = "AwaitingValidation" /\ to = "Rejected"
                            /\ op = "validate_public_node" /\ ~lastOp'.flag
                            /\ lastOp'.key = n
                      \/ from = "Active" /\ to = "Disabled"
    ]_vars

\* P4 was rejected by a vote, confidential node C4 is Active by its claim,
\* and the authority has just tried to activate the Rejected P4 and failed
C34_Witness ==
    /\ node["P4"].status = "Rejected"
    /\ node["C4"].status = "Active"
    /\ lastOp.op = "activate_node"
    /\ lastOp.who = Authority
    /\ lastOp.key = "P4"
    /\ lastOp.err = "InvalidNodeStatus"

\* C35: when an approval reaches the threshold, the task's chain_proof
\* becomes Sha256(prior chain_proof || certified input_cid || certified
\* output_cid || task_index), taken from the input and output certified
\* before this approval (the empty string when there is none), and only then
\* is the pending pair promoted; no other step changes chain_proof.
C35_TaskProofRule ==
    [][\A t \in TaskIds :
          LET certified == /\ ApprovalStep /\ lastOp'.t = t
                           /\ ApprovedReached(lastOp'.who, t)
          IN  /\ task'[t].chain_proof # task[t].chain_proof => certified
              /\ certified =>
                   /\ task'[t].chain_proof =
                        Sha256(<<task[t].chain_proof,
                                 IF task[t].input_cid = NoCid THEN ""
                                 ELSE task[t].input_cid,
                                 IF task[t].output_cid = NoCid THEN ""
                                 ELSE task[t].output_cid,
                                 task[t].task_index>>)
                   /\ task'[t].input_cid = task[t].pending_input_cid
                   /\ task'[t].output_cid = task[t].pending_output_cid
                   /\ task'[t].pending_input_cid = NoCid
                   /\ task'[t].pending_output_cid = NoCid
                   /\ task'[t].task_index = task[t].task_index
    ]_vars

\* the second certified result of a task: the proof chains the first
\* certified pair over the proof of the first approval, which had none
C35_Witness ==
    /\ lastOp.op \in ValidationOps /\ lastOp.err = "Ok" /\ lastOp.flag
    /\ task[lastOp.t].task_index = 2
    /\ task[lastOp.t].chain_proof =
          Sha256(<<Sha256(<<ZeroHash, "", "", 1>>), "x", "y", 2>>)
    /\ task[lastOp.t].input_cid = "x"
    /\ task[lastOp.t].pending_input_cid = NoCid

\* The campaign's chain_proof.  create_goal writes the genesis hash into
\* Goal.chain_proof; the Session account that the validation handlers take
\* has no such field, and no instruction writes a campaign's chain_proof
\* after its creation.  The genesis hash is NetworkConfig::compute_genesis_hash,
\* the Sha256 of the bytes "DAC_GENESIS".
goal_chain_proof(s) == Sha256(<<"DAC_GENESIS">>)

\* C36: when an approval reaches the threshold, the campaign's chain_proof
\* becomes Sha256(prior campaign chain_proof || the task's new chain_proof ||
\* task_slot_id || the campaign's iteration) in the step that pays the
\* compute node, and it changes in no other step.
C36_CampaignProofRule ==
    [][\A s \in SessionIds :
          LET certified == /\ ApprovalStep /\ lastOp'.s = s
                           /\ ApprovedReached(lastOp'.who, lastOp'.t)
          IN  /\ goal_chain_proof(s)' # goal_chain_proof(s) => certified
              /\ certified =>
                   goal_chain_proof(s)' =
                       Sha256(<<goal_chain_proof(s),
                                task'[lastOp'.t].chain_proof,
                                task[lastOp'.t].task_slot_id,
                                session[s].current_iteration>>)
    ]_vars

\* C37: once a task is claimed with ceiling max_task_cost, contributions and
\* withdrawals, by any contributors and in any order, leave the vault with
\* at least the ceiling plus the rent minimum for as long as the task is
\* Processing or AwaitingValidation; so an approval that reaches the
\* threshold with a payment of at most the ceiling never fails with
\* InsufficientBalance.
C37_LockGuaranteesPayment ==
    [][/\ \A s \in SessionIds :
             LET t == session'[s].task
             IN  (/\ session'[s].status = "Active"
                  /\ task'[t].status \in {"Processing", "AwaitingValidation"}) =>
                     /\ session'[s].locked_for_tasks >= task'[t].max_task_cost
                     /\ vault'[s] >= session'[s].locked_for_tasks + RentMin
       /\ (/\ lastOp'.op \in ValidationOps /\ lastOp'.flag
           /\ session[lastOp'.s].task = lastOp'.t
           /\ task[lastOp'.t].status = "AwaitingValidation"
           /\ lastOp'.amt <= task[lastOp'.t].max_task_cost) =>
              lastOp'.err # "InsufficientBalance"
    ]_vars

\* bob has just withdrawn from a session whose task is claimed with a
\* positive ceiling, and the vault is down to the lock plus the rent minimum
C37_Witness ==
    /\ lastOp.op = "withdraw_from_session" /\ lastOp.err = "Ok"
    /\ lastOp.who = "bob" /\ lastOp.out > 0
    /\ task[session[lastOp.s].task].status \in {"Processing", "AwaitingValidation"}
    /\ task[session[lastOp.s].task].max_task_cost > 0
    /\ session[lastOp.s].locked_for_tasks = task[session[lastOp.s].task].max_task_cost
    /\ vault[lastOp.s] = session[lastOp.s].locked_for_tasks + RentMin

-----------------------------------------------------------------------------
(* SpecSelf: one public session whose compute node, and every other node   *)
(* of the public pool, tries to vote on the task; and a public node P4     *)
(* that tries to vote on its own promotion, before and after the others    *)
(* promote it.                                                             *)

SelfInputs ==
    [VotesInputs EXCEPT !.pairs = {<<1, 1>>},
                        !.computes = {"P1", "P2", "P4"},
                        !.claimants = {"P1", "P2", "P4"},
                        !.validators = {"P1", "P2", "P3", "P4"},
                        !.costs = {0}, !.payments = {0},
                        !.slots = {0, 1, 2}, !.max_task_index = 2]

SelfNext ==
    \/ SetSession(SelfInputs)
    \/ SubmitTask(SelfInputs)
    \/ ClaimTask(SelfInputs)
    \/ SubmitTaskResult(SelfInputs)
    \/ SubmitPublicTaskValidation(SelfInputs)
    \/ RegisterNode(SelfInputs)
    \/ ClaimPublicNode(SelfInputs)
    \/ ValidatePublicNode(SelfInputs)

SpecSelf == Init /\ [][SelfNext]_vars

\* C39: the compute node assigned to a task is never in the task's validator
\* slate, so a validation signed by the task's compute node fails and
\* changes nothing; and a validate_public_node in which the voter is the
\* node voted on fails and changes nothing.
C39_NoSelfCertification ==
    [][/\ \A t \in TaskIds :
             task'[t].compute_node # NoKey =>
                ~HasEntry(task'[t].validations, task'[t].compute_node)
       /\ (/\ lastOp'.op \in ValidationOps
           /\ lastOp'.who = task[lastOp'.t].compute_node) =>
              /\ lastOp'.err # "Ok"
              /\ AccountsUnchanged
       /\ (/\ lastOp'.op = "validate_public_node"
           /\ lastOp'.who = lastOp'.key) =>
              /\ lastOp'.err # "Ok"
              /\ AccountsUnchanged
    ]_vars

\* P4, promoted by the votes of others, is the compute node of a task that
\* awaits validation; it has just voted on its own result and was refused
C39_Witness ==
    /\ lastOp.op = "submit_public_task_validation"
    /\ lastOp.who = "P4"
    /\ task[lastOp.t].compute_node = "P4"
    /\ task[lastOp.t].status = "AwaitingValidation"
    /\ lastOp.err = "ValidatorNotAssigned"
    /\ Len(node["P4"].approved_validators) > 0

\* C40: after every step, for a session and the task bound to it (the task
\* the session names, created for that session), locked_for_tasks equals
\* the task's max_task_cost while the task is Processing or
\* AwaitingValidation and is 0 while it is Ready or Pending; and no
\* validation fails with Underflow on releasing the lock.
C40_LockAccountingExact ==
    [][/\ \A s \in SessionIds :
             LET t == session'[s].task
             IN  task'[t].session_slot_id = s =>
                    IF task'[t].status \in {"Processing", "AwaitingValidation"}
                    THEN session'[s].locked_for_tasks = task'[t].max_task_cost
                    ELSE session'[s].locked_for_tasks = 0
       /\ lastOp'.op \in ValidationOps => lastOp'.err # "Underflow"
    ]_vars

=============================================================================
